---- MODULE Spec2Model ----
(***************************************************************************)
(* doc2confluence: the forward conversion (Converter.convertToADF and its  *)
(* schema validation) and the storage-format serializer                    *)
(* (ConfluenceClient.convertADFToStorage).                                 *)
(*                                                                         *)
(* Strings that the code inspects or rewrites character by character (the  *)
(* text of a text node) are sequences of one-character strings.  Output    *)
(* markup is a sequence of pieces: the literal fragments of the code's     *)
(* template strings are one piece each, interpolated attribute values are  *)
(* one piece each, and escaped text contributes one piece per character.   *)
(***************************************************************************)
EXTENDS Integers, Sequences, FiniteSets, TLC

VARIABLES
  \* ---- Converter instance and its environment ----
  adfSchema,    \* Converter.adfSchema: "null" or the loaded schema document
  cacheFile,    \* cache/adf-schema.json on disk
  fetched,      \* the calls that have requested the schema from ADF_SCHEMA_URL
  callers,      \* the calls the client code may make
  \* ---- one record of fields per call of convertToADF / validateADF ----
  pc,           \* where the call is
  entry,        \* the method called: "convertToADF" or "validateADF"
  tokens,       \* marked.lexer's token list
  options,      \* ConversionOptions
  idx,          \* number of tokens the for loop has taken
  inflight,     \* tokens whose awaited sub-step has not settled
  content,      \* the content array built so far
  adfOf,        \* the tree given to validateADF
  schema,       \* what getADFSchema returned to validateADF
  body,         \* the schema document the call downloaded
  schemaLog,    \* what went wrong while loading or applying the schema
  ret,          \* the tree the call resolved to
  error,        \* the message of the error the call rejected with
  markdown,     \* the source text given to convertToADF
  lexed,        \* whether the call has run marked.lexer
  \* ---- storage serializer (ConfluenceClient.convertADFToStorage) ----
  adfInput,     \* the tree handed to convertADFToStorage
  serPc,        \* "ready" before the call, "returned" after it
  storage,      \* the markup returned by the latest call (<<>> before any)
  served,       \* <<tree, markup>> of the calls that have returned, in order
  serCalls,     \* number of calls started
  \* ---- the table builder called on its own ----
  csvInput,     \* the delimited text and the CsvOptions given to the builder
  csvPc,        \* "ready" before the call, "settled" after it
  csvOut,       \* what the returned promise settled to
  \* ---- the inline resolver called on its own ----
  spanInput,    \* the text span and the options given to parseInlineContent
  spanPc,       \* "ready" before the call, "returned" after it
  spanOut,      \* the nodes returned
  \* ---- one call of ConfluenceClient.createOrUpdatePage ----
  pubInput,     \* the client's instance type, the arguments, the server's pages
  pubPc,        \* where the call is
  existingPage, \* the page the call has found (NoPage while it has none)
  requests,     \* the requests the call has sent, in order
  pubOut        \* what the returned promise settled to

envVars == <<adfSchema, cacheFile, fetched, callers>>

callVars == <<pc, entry, tokens, options, idx, inflight, content, adfOf, schema, body,
              schemaLog,
              ret, error, markdown, lexed>>

srcVars == <<markdown, lexed>>

convVars == <<envVars, callVars>>

serVars == <<adfInput, serPc, storage, served, serCalls>>

csvVars == <<csvInput, csvPc, csvOut>>

inlVars == <<spanInput, spanPc, spanOut>>

pubVars == <<pubInput, pubPc, existingPage, requests, pubOut>>

vars == <<convVars, serVars, csvVars, inlVars, pubVars>>

(***************************************************************************)
(* Optional fields of a node: `node.content || []`, `node.attrs?.x`.       *)
(***************************************************************************)
Has(r, f) == f \in DOMAIN r

ContentOf(node) == IF Has(node, "content") THEN node.content ELSE <<>>

AttrOf(node, a, dflt) ==
  IF Has(node, "attrs") /\ Has(node.attrs, a) THEN node.attrs[a] ELSE dflt

Range(s) == {s[i] : i \in DOMAIN s}

(***************************************************************************)
(* escapeHtml: five String.replace calls with a global pattern, applied    *)
(* one after the other to the result of the previous one.                  *)
(***************************************************************************)
RECURSIVE ReplaceAll(_, _, _)
ReplaceAll(s, c, r) ==
  IF s = <<>> THEN <<>>
  ELSE (IF Head(s) = c THEN r ELSE <<Head(s)>>) \o ReplaceAll(Tail(s), c, r)

EntAmp  == <<"&", "a", "m", "p", ";">>
EntLt   == <<"&", "l", "t", ";">>
EntGt   == <<"&", "g", "t", ";">>
EntQuot == <<"&", "q", "u", "o", "t", ";">>
EntApos == <<"&", "#", "0", "3", "9", ";">>

escapeHtml(text) ==
  ReplaceAll(ReplaceAll(ReplaceAll(ReplaceAll(ReplaceAll(text,
    "&", EntAmp), "<", EntLt), ">", EntGt), "\"", EntQuot), "'", EntApos)

(***************************************************************************)
(* The text case: the marks are visited in list order and each visit wraps *)
(* the markup built so far.                                                *)
(***************************************************************************)
MarkAttr(mark, a, dflt) ==
  IF Has(mark, "attrs") /\ Has(mark.attrs, a) THEN mark.attrs[a] ELSE dflt

wrapMark(mark, text) ==
  CASE mark.type = "strong"    -> <<"<strong>">> \o text \o <<"</strong>">>
    [] mark.type = "em"        -> <<"<em>">> \o text \o <<"</em>">>
    [] mark.type = "code"      -> <<"<code>">> \o text \o <<"</code>">>
    [] mark.type = "link"      ->
         <<"<a href=\"", (IF MarkAttr(mark, "href", "") # ""
                          THEN MarkAttr(mark, "href", "") ELSE "#"), "\">">>
         \o text \o <<"</a>">>
    [] mark.type = "strike"    -> <<"<s>">> \o text \o <<"</s>">>
    [] mark.type = "underline" -> <<"<u>">> \o text \o <<"</u>">>
    [] mark.type = "textColor" ->
         IF MarkAttr(mark, "color", "") # ""
         THEN <<"<span style=\"color:", MarkAttr(mark, "color", ""), "\">">>
              \o text \o <<"</span>">>
         ELSE text
    [] mark.type = "subsup"    ->
         IF MarkAttr(mark, "type", "") = "sub"
         THEN <<"<sub>">> \o text \o <<"</sub>">>
         ELSE <<"<sup>">> \o text \o <<"</sup>">>
    [] OTHER                   -> text

RECURSIVE applyMarksFrom(_, _, _)
applyMarksFrom(marks, i, text) ==
  IF i > Len(marks) THEN text
  ELSE applyMarksFrom(marks, i + 1, wrapMark(marks[i], text))

\* a loop that visits the mark list from its end
RECURSIVE applyMarksBackFrom(_, _, _)
applyMarksBackFrom(marks, i, text) ==
  IF i < 1 THEN text
  ELSE applyMarksBackFrom(marks, i - 1, wrapMark(marks[i], text))

applyMarksReversed(marks, text) == applyMarksBackFrom(marks, Len(marks), text)

applyMarks(marks, text) == applyMarksFrom(marks, 1, text)

textCase(node) ==
  applyMarks(IF Has(node, "marks") THEN node.marks ELSE <<>>,
             escapeHtml(IF Has(node, "text") THEN node.text ELSE <<>>))

MacroCore == "com.atlassian.confluence.macro.core"

RECURSIVE processADFNodes(_)
RECURSIVE processNode(_)

\* a code macro that always carries the language parameter
codeBlockAlwaysLanguage(node) ==
  <<"<ac:structured-macro ac:name=\"code\">">>
  \o <<"<ac:parameter ac:name=\"language\">", AttrOf(node, "language", ""),
       "</ac:parameter>">>
  \o <<"<ac:plain-text-body><![CDATA[">>
  \o processADFNodes(ContentOf(node))
  \o <<"]]></ac:plain-text-body></ac:structured-macro>">>

codeBlockCase(node) ==
  LET language == AttrOf(node, "language", "")
  IN  <<"<ac:structured-macro ac:name=\"code\">">>
      \o (IF language # ""
          THEN <<"<ac:parameter ac:name=\"language\">", language, "</ac:parameter>">>
          ELSE <<>>)
      \o <<"<ac:plain-text-body><![CDATA[">>
      \o processADFNodes(ContentOf(node))
      \o <<"]]></ac:plain-text-body></ac:structured-macro>">>

\* Object.entries(parameters) in insertion order; `parameters` is modelled
\* as the sequence of its <<key, value>> entries.
RECURSIVE macroParameters(_)
macroParameters(entries) ==
  IF entries = <<>> THEN <<>>
  ELSE <<"<ac:parameter ac:name=\"", Head(entries)[1], "\">", Head(entries)[2],
         "</ac:parameter>">> \o macroParameters(Tail(entries))

extensionCase(node) ==
  IF AttrOf(node, "extensionType", "") = MacroCore
  THEN <<"<ac:structured-macro ac:name=\"",
         (IF AttrOf(node, "extensionKey", "") # ""
          THEN AttrOf(node, "extensionKey", "") ELSE "info"), "\">">>
       \o macroParameters(AttrOf(node, "parameters", <<>>))
       \o (IF Has(node, "content")
           THEN <<"<ac:rich-text-body>">> \o processADFNodes(node.content)
                \o <<"</ac:rich-text-body>">>
           ELSE <<>>)
       \o <<"</ac:structured-macro>">>
  ELSE <<>>

panelCase(node) ==
  LET panelType == AttrOf(node, "panelType", "info")
  IN  <<"<ac:structured-macro ac:name=\"info\">">>
      \o (IF panelType # "info"
          THEN <<"<ac:parameter ac:name=\"type\">", panelType, "</ac:parameter>">>
          ELSE <<>>)
      \o <<"<ac:rich-text-body>">> \o processADFNodes(ContentOf(node))
      \o <<"</ac:rich-text-body></ac:structured-macro>">>

mediaCase(node) ==
  CASE AttrOf(node, "type", "") = "file" ->
         <<"<ac:image><ri:attachment ri:filename=\"", AttrOf(node, "filename", ""),
           "\" /></ac:image>">>
    [] AttrOf(node, "type", "") = "external" ->
         <<"<ac:image><ri:url ri:value=\"", AttrOf(node, "url", "undefined"),
           "\" /></ac:image>">>
    [] OTHER -> <<>>

\* colspan / rowspan attributes, emitted when the attribute is truthy
spanAttrs(node) ==
  (IF AttrOf(node, "colspan", 0) # 0
   THEN <<" colspan=\"", ToString(AttrOf(node, "colspan", 0)), "\"">> ELSE <<>>)
  \o (IF AttrOf(node, "rowspan", 0) # 0
      THEN <<" rowspan=\"", ToString(AttrOf(node, "rowspan", 0)), "\"">> ELSE <<>>)

taskItemCase(node) ==
  <<"<ac:task><ac:task-status>",
    (IF AttrOf(node, "state", "") = "DONE" THEN "complete" ELSE "incomplete"),
    "</ac:task-status>">>
  \o <<"<ac:task-body>">> \o processADFNodes(ContentOf(node))
  \o <<"</ac:task-body></ac:task>">>

\* a default case that keeps a wrapper for the node
defaultCaseWrapped(node) ==
  <<"<div>">>
  \o (IF Has(node, "content") THEN processADFNodes(node.content) ELSE <<>>)
  \o <<"</div>">>

defaultCase(node) ==
  IF Has(node, "content") THEN processADFNodes(node.content) ELSE <<>>

Wrapped(open, node, close) ==
  <<open>> \o processADFNodes(ContentOf(node)) \o <<close>>

processNode(node) ==
  CASE node.type = "paragraph"   -> Wrapped("<p>", node, "</p>")
    [] node.type = "text"        -> textCase(node)
    [] node.type = "heading"     ->
         <<"<h", ToString(AttrOf(node, "level", 1)), ">">>
         \o processADFNodes(ContentOf(node))
         \o <<"</h", ToString(AttrOf(node, "level", 1)), ">">>
    [] node.type = "bulletList"  -> Wrapped("<ul>", node, "</ul>")
    [] node.type = "orderedList" -> Wrapped("<ol>", node, "</ol>")
    [] node.type = "listItem"    -> Wrapped("<li>", node, "</li>")
    [] node.type = "codeBlock"   -> codeBlockCase(node)
    [] node.type = "blockquote"  -> Wrapped("<blockquote>", node, "</blockquote>")
    [] node.type = "panel"       -> panelCase(node)
    [] node.type = "mediaSingle" -> processADFNodes(ContentOf(node))
    [] node.type = "media"       -> mediaCase(node)
    [] node.type = "table"       ->
         Wrapped("<table><tbody>", node, "</tbody></table>")
    [] node.type = "tableRow"    -> Wrapped("<tr>", node, "</tr>")
    [] node.type = "tableCell"   ->
         <<"<td">> \o spanAttrs(node) \o <<">">>
         \o processADFNodes(ContentOf(node)) \o <<"</td>">>
    [] node.type = "tableHeader" ->
         <<"<th">> \o spanAttrs(node) \o <<">">>
         \o processADFNodes(ContentOf(node)) \o <<"</th>">>
    [] node.type = "hardBreak"   -> <<"<br />">>
    [] node.type = "rule"        -> <<"<hr />">>
    [] node.type = "taskList"    ->
         <<"<ac:structured-macro ac:name=\"tasklist\">",
           "<ac:parameter ac:name=\"title\">Task List</ac:parameter>",
           "<ac:rich-text-body>">>
         \o processADFNodes(ContentOf(node))
         \o <<"</ac:rich-text-body>", "</ac:structured-macro>">>
    [] node.type = "taskItem"    -> taskItemCase(node)
    [] node.type = "extension"   -> extensionCase(node)
    [] OTHER                     -> defaultCase(node)

processADFNodes(nodes) ==
  IF nodes = <<>> THEN <<>>
  ELSE processNode(Head(nodes)) \o processADFNodes(Tail(nodes))

InvalidStructure == <<"<p>Invalid ADF document structure</p>">>

\* a serializer whose result accumulator is a field of the client
convertADFToStorageShared(adf) ==
  storage \o (IF ~Has(adf, "type") \/ adf.type # "doc" \/ ~Has(adf, "content")
              THEN InvalidStructure
              ELSE processADFNodes(adf.content))

\* a serializer that does not look at the root
convertADFToStorageUnchecked(adf) == processADFNodes(ContentOf(adf))

convertADFToStorage(adf) ==
  IF ~Has(adf, "type") \/ adf.type # "doc" \/ ~Has(adf, "content")
  THEN InvalidStructure
  ELSE processADFNodes(adf.content)

(***************************************************************************)
(* Trees handed to the serializer.                                         *)
(***************************************************************************)
MaxTextLen == 2
MaxMarks == 2

Chars == {"a", "&", "<", ">", "\"", "'"}

SeqsUpTo(S, n) == UNION {[1..k -> S] : k \in 0..n}

Texts == SeqsUpTo(Chars, MaxTextLen)

SampleMarks ==
  { [type |-> "strong"], [type |-> "em"],
    [type |-> "link", attrs |-> [href |-> "http://x"]],
    [type |-> "link"],
    [type |-> "action", attrs |-> [state |-> "todo"]] }

MarkLists == SeqsUpTo(SampleMarks, MaxMarks)

TextNode(t) == [type |-> "text", text |-> t]

MarkedText(t, ms) == [type |-> "text", text |-> t, marks |-> ms]

Leaves ==
  {TextNode(t) : t \in Texts}
  \cup {MarkedText(<<"a", "&">>, ms) : ms \in MarkLists}

Paragraph(c) == [type |-> "paragraph", content |-> c]

SmallLeaves == {TextNode(<<"a">>), TextNode(<<"<">>),
                MarkedText(<<"a">>, <<[type |-> "strong"]>>)}

\* one or two children, so that sibling order is visible
ChildLists ==
  {<<l>> : l \in SmallLeaves}
  \cup {<<l, m>> : l \in SmallLeaves, m \in SmallLeaves}
  \cup {<<Paragraph(<<l>>), m>> : l \in SmallLeaves, m \in SmallLeaves}

Languages == {"javascript", "mermaid", ""}

CodeBlocks ==
  {[type |-> "codeBlock", attrs |-> [language |-> l], content |-> <<TextNode(t)>>] :
      l \in Languages, t \in Texts}
  \cup {[type |-> "codeBlock", content |-> <<TextNode(t)>>] : t \in Texts}

ExtensionTypes == {MacroCore, "com.example.other", ""}

Extensions ==
  {[type |-> "extension",
    attrs |-> [extensionType |-> et, extensionKey |-> k,
               parameters |-> <<<<"macroParams", "[object Object]">>>>],
    content |-> c] :
      et \in ExtensionTypes, k \in {"markdown", "html", ""}, c \in ChildLists}
  \cup {[type |-> "extension", attrs |-> [extensionType |-> et, extensionKey |-> "toc"]] :
      et \in ExtensionTypes}
  \cup {[type |-> "extension", content |-> c] : c \in ChildLists}

\* node types the switch has no case for
UnmappedNodes ==
  {[type |-> ty, content |-> c] : ty \in {"expand", "layoutSection"}, c \in ChildLists}
  \cup {[type |-> "emoji", attrs |-> [shortName |-> ":smile:"]]}
  \cup {[type |-> "expand",
         content |-> <<[type |-> "nestedExpand", content |-> c]>>] : c \in ChildLists}

\* text leaves below the containers and macros the switch has cases for
Containers ==
  UNION {{ [type |-> "panel", attrs |-> [panelType |-> "note"],
            content |-> <<Paragraph(<<l>>)>>],
           [type |-> "heading", attrs |-> [level |-> 2], content |-> <<l>>],
           [type |-> "bulletList",
            content |-> <<[type |-> "listItem", content |-> <<Paragraph(<<l>>)>>]>>],
           [type |-> "table",
            content |-> <<[type |-> "tableRow",
                           content |-> <<[type |-> "tableCell",
                                          content |-> <<Paragraph(<<l>>)>>]>>]>>],
           [type |-> "taskList",
            content |-> <<[type |-> "taskItem", attrs |-> [state |-> "TODO"],
                           content |-> <<l>>]>>] } : l \in SmallLeaves}

\* unmapped nodes below a mapped container, and the other way round
NestedUnmapped ==
  {[type |-> "blockquote", content |-> <<[type |-> "expand", content |-> c]>>] :
      c \in ChildLists}
  \cup {[type |-> "layoutSection",
         content |-> <<[type |-> "layoutColumn",
                        content |-> <<[type |-> "blockquote",
                                       content |-> <<Paragraph(c)>>]>>]>>] :
          c \in ChildLists}

Blocks ==
  {Paragraph(<<l>>) : l \in Leaves} \cup CodeBlocks \cup Extensions \cup UnmappedNodes
  \cup Containers \cup NestedUnmapped
  \cup {[type |-> "blockquote", content |-> <<Paragraph(c)>>] : c \in ChildLists}

Doc(c) == [type |-> "doc", version |-> 1, content |-> c]

SerInputs ==
  {Doc(<<b>>) : b \in Blocks}
  \cup {Doc(<<>>), [type |-> "doc", version |-> 1],
        [type |-> "paragraph", content |-> <<TextNode(<<"a">>)>>],
        [version |-> 1, content |-> <<TextNode(<<"a">>)>>]}

(***************************************************************************)
(* The forward conversion: Converter.convertToADF, tokenToADFNode,         *)
(* validateADF and getADFSchema.                                           *)
(*                                                                         *)
(* marked.lexer, JSDOM, the file system, the asset store and the schema    *)
(* host are outside the repository: the token list is an input, and what   *)
(* the others answer is fixed per path (ReadableFiles, UploadableImages,   *)
(* DomHasTable) or chosen by the environment when the step settles.        *)
(***************************************************************************)
MaxTokens == 2

Calls == {"c1", "c2"}

Unset == [unset |-> TRUE]

InvalidADFMessage == "Invalid ADF: Document must have type \"doc\""
InvalidHtmlTableMessage == "Invalid HTML table"

Resolved(node) == [kind |-> "node", node |-> node]
ResolvedNull == [kind |-> "null"]
Thrown(msg) == [kind |-> "throw", message |-> msg]

\* ---- sample inputs ----
TableOpenTag == <<"<", "t", "a", "b", "l", "e">>

HtmlNoTable == TableOpenTag
HtmlWithTable == TableOpenTag \o <<"x", ">", "<table><tr><td>", "x", "</td></tr></table>">>

ReadableFiles == {"data.csv"}
UploadableImages == {"ok.png"}
CsvPaths == {"data.csv", "missing.csv"}

\* `raw` is the stretch of the source a token was cut from
TokenSamples ==
  { [type |-> "heading", depth |-> 1, text |-> <<"H">>, raw |-> <<"#", " ", "H", "\n">>],
    [type |-> "paragraph", text |-> <<"h", "i">>, raw |-> <<"h", "i", "\n">>],
    [type |-> "paragraph", text |-> HtmlNoTable, raw |-> HtmlNoTable \o <<"\n">>],
    [type |-> "paragraph", text |-> HtmlWithTable, raw |-> HtmlWithTable \o <<"\n">>],
    [type |-> "image", href |-> "ok.png", text |-> <<"a", "l", "t">>,
     raw |-> <<"!", "[", "a", "l", "t", "]", "(", "ok.png", ")">>],
    [type |-> "image", href |-> "bad.png", text |-> <<>>,
     raw |-> <<"!", "[", "]", "(", "bad.png", ")">>],
    [type |-> "image", href |-> "data.csv", text |-> <<"c", "s", "v">>,
     raw |-> <<"!", "[", "c", "s", "v", "]", "(", "data.csv", ")">>],
    [type |-> "image", href |-> "missing.csv", text |-> <<"c", "s", "v">>,
     raw |-> <<"!", "[", "c", "s", "v", "]", "(", "missing.csv", ")">>],
    [type |-> "code", lang |-> "js", text |-> <<"x", "\"">>,
     raw |-> <<"~~~", "js", "\n", "x", "\"", "\n", "~~~", "\n">>],
    [type |-> "code", lang |-> "csv",
     text |-> <<"h1", ",", "h2", "\n", "v1", ",", "v2">>,
     raw |-> <<"~~~", "csv", "\n", "h1", ",", "h2", "\n", "v1", ",", "v2", "\n", "~~~",
               "\n">>],
    [type |-> "code", lang |-> "csv",
     text |-> <<"h1", "\n", "\"", "v1">>,
     raw |-> <<"~~~", "csv", "\n", "h1", "\n", "\"", "v1", "\n", "~~~", "\n">>],
    [type |-> "code", lang |-> "csv;no-header",
     text |-> <<"v1", ",", "v2">>,
     raw |-> <<"~~~", "csv;no-header", "\n", "v1", ",", "v2", "\n", "~~~", "\n">>],
    [type |-> "space", raw |-> <<"\n", "\n">>] }

\* the source a token list was cut from
RECURSIVE RawOf(_)
RawOf(toks) == IF toks = <<>> THEN <<>> ELSE Head(toks).raw \o RawOf(Tail(toks))

\* sources with and without white space around them
Paddings == {<<>>, <<" ">>, <<"\n", "\t">>}

MarkdownBodies ==
  {<<>>, <<"#", " ", "H">>, <<"a", " ", "b">>, <<"x", "\n", "\n", "y">>}

MarkdownSamples ==
  {p \o b \o q : p \in Paddings, b \in MarkdownBodies, q \in Paddings}

\* ---- list tokens ----
MaxItems == 2
MaxBoxLines == 2

\* the digits of a list number, the characters of a checkbox
Digits == {"1", "2"}
Boxes == {" ", "x", "X"}

\* item labels, plain and emphasised
Labels == {<<"A">>, <<"*", "*", "B", "*", "*">>}

\* items the lexer marks as tasks: the checkbox is cut from the text
TaskItems == {[task |-> TRUE, checked |-> b, text |-> l] : b \in BOOLEAN, l \in Labels}

\* checkbox lines below the first line of an item, the last one without a label
BoxLines ==
  {m \o <<" ", "[", b, "]", " ", "A">> : m \in {<<"-">>, <<"1", ".">>}, b \in Boxes}
  \cup {<<"-", " ", "[", " ", "]">>}

RECURSIVE LinesJoined(_)
LinesJoined(ls) == IF ls = <<>> THEN <<>> ELSE <<"\n">> \o Head(ls) \o LinesJoined(Tail(ls))

ItemTexts == {<<"Main">> \o LinesJoined(ls) : ls \in SeqsUpTo(BoxLines, MaxBoxLines)}

PlainItems == {[task |-> FALSE, checked |-> FALSE, text |-> t] : t \in ItemTexts}

ItemLists ==
  (SeqsUpTo(TaskItems, MaxItems) \ {<<>>})
  \cup {<<p>> : p \in PlainItems}
  \cup {<<t, p>> : t \in TaskItems,
                  p \in {q \in PlainItems : Len(q.text) <= 1 + 7}}

\* the continuation lines of an item are indented in the source
RECURSIVE Indented(_)
Indented(t) ==
  IF t = <<>> THEN <<>>
  ELSE IF Head(t) = "\n" THEN <<"\n", " ", " ">> \o Indented(Tail(t))
  ELSE <<Head(t)>> \o Indented(Tail(t))

RECURSIVE ItemsRaw(_, _)
ItemsRaw(ordered, its) ==
  IF its = <<>> THEN <<>>
  ELSE (IF ordered THEN <<"1", ".">> ELSE <<"-">>) \o <<" ">>
       \o (IF Head(its).task
           THEN <<"[", IF Head(its).checked THEN "x" ELSE " ", "]", " ">> ELSE <<>>)
       \o Indented(Head(its).text) \o <<"\n">> \o ItemsRaw(ordered, Tail(its))

ListTokens ==
  {[type |-> "list", ordered |-> o, items |-> its, raw |-> ItemsRaw(o, its)] :
     o \in BOOLEAN, its \in ItemLists}

\* a block quote and a table of one header cell and one body cell
QuoteToken == [type |-> "blockquote", text |-> <<"q">>, raw |-> <<">", " ", "q", "\n">>]

TableToken ==
  [type |-> "table", header |-> <<[text |-> <<"h">>]>>,
   rows |-> <<(<<[text |-> <<"@", "bob">>]>>)>>,
   raw |-> <<"|", "h", "|", "\n", "|", "-", "|", "\n", "|", "@", "bob", "|", "\n">>]

PlainParagraph ==
  [type |-> "paragraph", text |-> <<"h", "i">>, raw |-> <<"h", "i", "\n">>]

TokenLists ==
  SeqsUpTo(TokenSamples, MaxTokens) \cup {<<t>> : t \in ListTokens}
  \cup UNION {{<<t>>, <<t, PlainParagraph>>, <<PlainParagraph, t>>} :
                t \in {QuoteToken, TableToken}}

OptionSamples ==
  { [useOfficialSchema |-> s, uploadImages |-> u, confluenceClient |-> u, spaceKey |-> k,
     useMarkdownMacro |-> FALSE] :
      s \in BOOLEAN, u \in BOOLEAN, k \in {"DOCS"} }
  \cup { [useOfficialSchema |-> FALSE, uploadImages |-> TRUE,
          confluenceClient |-> TRUE, spaceKey |-> "", useMarkdownMacro |-> FALSE] }
  \cup { [useOfficialSchema |-> s, uploadImages |-> FALSE, confluenceClient |-> FALSE,
          spaceKey |-> "", useMarkdownMacro |-> TRUE] : s \in BOOLEAN }

\* trees validateADF may be handed by a direct caller
RootSamples ==
  { [null |-> TRUE],
    [primitive |-> "doc"],
    [version |-> 1, content |-> <<>>],
    [type |-> "", content |-> <<>>],
    [type |-> "paragraph", content |-> <<TextNode(<<"a">>)>>],
    [type |-> "Doc", version |-> 1, content |-> <<>>],
    Doc(<<>>),
    Doc(<<Paragraph(<<TextNode(<<"a">>)>>)>>) }

\* ---- String.prototype.trim ----
Whitespace == {" ", "\n", "\t"}

RECURSIVE TrimStart(_)
TrimStart(t) ==
  IF t # <<>> /\ Head(t) \in Whitespace THEN TrimStart(Tail(t)) ELSE t

RECURSIVE TrimEnd(_)
TrimEnd(t) ==
  IF t # <<>> /\ t[Len(t)] \in Whitespace THEN TrimEnd(SubSeq(t, 1, Len(t) - 1))
  ELSE t

\* String.prototype.trim
Trim(t) == TrimEnd(TrimStart(t))

\* the piece at position i, "" past the ends
At(s, i) == IF i \in DOMAIN s THEN s[i] ELSE ""

\* \s* from position i: the first position that holds no white space
RECURSIVE SkipWs(_, _)
SkipWs(s, i) == IF At(s, i) \in Whitespace THEN SkipWs(s, i + 1) ELSE i

\* ---- tokenToADFNode ----
StartsWith(text, prefix) ==
  Len(text) >= Len(prefix) /\ SubSeq(text, 1, Len(prefix)) = prefix

\* JSDOM: whether the parsed fragment holds a <table> element
DomHasTable(html) == html = HtmlWithTable

TableCellNode(kind, c) ==
  [type |-> kind, attrs |-> [colspan |-> 1, rowspan |-> 1, background |-> "null"],
   content |-> c]

\* ---- the inline resolver ----
\* an option that is set and true
Feature(opts, name) == name \in DOMAIN opts /\ opts[name]

\* the pieces made of the characters of [a-zA-Z0-9_-] only
NameAtoms ==
  {"a", "b", "bob", "x", "X", "A", "B", "H", "T", "h", "i", "y", "1", "2", "Main", "_", "-"}

\* text.split(/(\s+)/): the stretches without white space and, between them,
\* the stretches of white space; an empty stretch where the text begins or
\* ends with white space, and for the empty text
RECURSIVE SplitOnWhitespace(_)
SplitOnWhitespace(text) ==
  IF \A i \in DOMAIN text : text[i] \notin Whitespace THEN <<text>>
  ELSE LET i == CHOOSE k \in DOMAIN text :
                  /\ text[k] \in Whitespace
                  /\ \A h \in 1..(k - 1) : text[h] \notin Whitespace
           j == SkipWs(text, i)
       IN  <<SubSeq(text, 1, i - 1), SubSeq(text, i, j - 1)>>
           \o SplitOnWhitespace(SubSeq(text, j, Len(text)))

\* /^@([a-zA-Z0-9_-]+)$/
MentionMatches(text) ==
  /\ Len(text) >= 2 /\ text[1] = "@"
  /\ \A i \in 2..Len(text) : text[i] \in NameAtoms

parseMentions(text) ==
  [type |-> "mention",
   attrs |-> [id |-> SubSeq(text, 2, Len(text)), text |-> text,
              accessLevel |-> "CONTAINER"]]

\* /^https?:\/\//
UrlMatches(text) == At(text, 1) \in {"http://", "https://"}

parseInlineCard(url) == [type |-> "inlineCard", attrs |-> [url |-> url]]

\* /^\[(.*?)\]$/
StatusMatches(text) ==
  /\ Len(text) >= 2 /\ text[1] = "[" /\ text[Len(text)] = "]"
  /\ \A i \in DOMAIN text : text[i] # "\n"

parseStatus(text) ==
  [type |-> "status",
   attrs |-> [text |-> SubSeq(text, 2, Len(text) - 1), color |-> "grey"]]

\* /^\{panel:title=(.*?)\}(.*?)\{panel\}$/
PanelMatches(text) ==
  /\ At(text, 1) = "{panel:" /\ At(text, 2) = "title="
  /\ text[Len(text)] = "{panel}"
  /\ \E k \in 3..(Len(text) - 1) : text[k] = "}"
  /\ \A i \in DOMAIN text : text[i] # "\n"

parsePanel(text) ==
  LET k == CHOOSE h \in 3..(Len(text) - 1) :
             text[h] = "}" /\ \A g \in 3..(h - 1) : text[g] # "}"
  IN  [type |-> "panel", attrs |-> [panelType |-> "info"],
       content |-> <<[type |-> "paragraph",
                      content |-> <<TextNode(SubSeq(text, k + 1, Len(text) - 1))>>]>>]

\* the node of one stretch, every recognizer tried whatever the options
resolvePartAllFeatures(part, opts) ==
  IF Trim(part) = <<>> THEN TextNode(part)
  ELSE IF At(part, 1) = "@" /\ MentionMatches(part) THEN parseMentions(part)
  ELSE IF UrlMatches(part) THEN parseInlineCard(part)
  ELSE IF StatusMatches(part) THEN parseStatus(part)
  ELSE IF At(part, 1) = "{panel:" /\ PanelMatches(part) THEN parsePanel(part)
  ELSE TextNode(part)

\* the body of the for loop of splitTextIntoParts: the node of one stretch
resolvePart(part, opts) ==
  IF Trim(part) = <<>> THEN TextNode(part)
  ELSE IF Feature(opts, "parseMentions") /\ At(part, 1) = "@" /\ MentionMatches(part)
       THEN parseMentions(part)
  ELSE IF Feature(opts, "parseInlineCards") /\ UrlMatches(part)
       THEN parseInlineCard(part)
  ELSE IF StatusMatches(part) THEN parseStatus(part)
  ELSE IF At(part, 1) = "{panel:" /\ PanelMatches(part) THEN parsePanel(part)
  ELSE TextNode(part)

splitTextIntoParts(text, opts, existingContent) ==
  existingContent
  \o [i \in DOMAIN SplitOnWhitespace(text) |-> resolvePart(SplitOnWhitespace(text)[i], opts)]

\* the end of the line that position l is on: the next line break or the end
LineEnd(s, l) ==
  CHOOSE e \in l..(Len(s) + 1) :
    /\ (e > Len(s) \/ s[e] = "\n")
    /\ \A h \in l..(e - 1) : s[h] # "\n"

\* /\[([ xX])\]\s+([^\n]*)/ at position i
TaskSyntaxAt(s, i) ==
  /\ At(s, i) = "[" /\ At(s, i + 1) \in {" ", "x", "X"} /\ At(s, i + 2) = "]"
  /\ At(s, i + 3) \in Whitespace

\* /!\[(.*?)\]\((.*?)\)/ at position i, the alt text ending before position j
\* and the url before position k
ImageSyntaxAt(s, i, j, k) ==
  /\ At(s, i) = "!" /\ At(s, i + 1) = "["
  /\ j >= i + 2 /\ At(s, j) = "]" /\ At(s, j + 1) = "("
  /\ k >= j + 2 /\ At(s, k) = ")"
  /\ \A h \in (i + 2)..(k - 1) : s[h] # "\n"

ImageSyntaxFrom(s, i) == \E j, k \in DOMAIN s : ImageSyntaxAt(s, i, j, k)

ActionText(t, box) ==
  [type |-> "text", text |-> t,
   marks |-> <<[type |-> "action",
                attrs |-> [state |-> IF box \in {"x", "X"} THEN "done" ELSE "todo"]]>>]

InlineMedia(url, alt) ==
  [type |-> "mediaSingle", attrs |-> [layout |-> "center"],
   content |-> <<[type |-> "media",
                  attrs |-> [type |-> "external", url |-> url, alt |-> alt]]>>]

\* the value of a set of one element
Only(S) == CHOOSE x \in S : TRUE

\* the text from lastIndex up to the match at position i, or up to the end of
\* the text without a match, resolved after the nodes built so far
Before(text, opts, lastIndex, acc, i) ==
  LET stop == IF i = 0 THEN Len(text) + 1 ELSE i
  IN  IF stop > lastIndex
      THEN splitTextIntoParts(SubSeq(text, lastIndex, stop - 1), opts, acc)
      ELSE acc

\* taskRegex.exec from lastIndex on: the position of the match, 0 for null
FirstTask(s, lastIndex) ==
  LET hits == {i \in lastIndex..Len(s) : TaskSyntaxAt(s, i)}
  IN  IF hits = {} THEN 0 ELSE CHOOSE i \in hits : \A g \in hits : i <= g

\* the while loop over taskRegex.exec from lastIndex on
RECURSIVE taskLoop(_, _, _, _)
\* the body of the loop for the match at position i
taskMatch(text, opts, i, before) ==
  LET l == SkipWs(text, i + 3)
      e == LineEnd(text, l)
  IN  IF i = 0 THEN before
      ELSE taskLoop(text, opts, e,
                    Append(before, ActionText(SubSeq(text, l, e - 1), text[i + 1])))

taskFrom(text, opts, lastIndex, acc, i) ==
  Only({taskMatch(text, opts, i, before) :
          before \in {Before(text, opts, lastIndex, acc, i)}})

taskLoop(text, opts, lastIndex, acc) ==
  Only({taskFrom(text, opts, lastIndex, acc, i) : i \in {FirstTask(text, lastIndex)}})

\* imgRegex.exec from lastIndex on: <<i, j, k>>, the match at position i with
\* its alt text ending before j and its url before k, both as short as can
\* be; <<0, 0, 0>> for null
FirstImage(s, lastIndex) ==
  LET hits == {h \in (lastIndex..Len(s)) \X (DOMAIN s) \X (DOMAIN s) :
                 ImageSyntaxAt(s, h[1], h[2], h[3])}
  IN  IF hits = {} THEN <<0, 0, 0>>
      ELSE CHOOSE h \in hits :
             \A g \in hits :
               \/ h[1] < g[1]
               \/ h[1] = g[1] /\ h[2] < g[2]
               \/ h[1] = g[1] /\ h[2] = g[2] /\ h[3] <= g[3]

\* the while loop over imgRegex.exec from lastIndex on
RECURSIVE imageLoop(_, _, _, _)
\* the body of the loop for the match m
imageMatch(text, opts, m, before) ==
  IF m[1] = 0 THEN before
  ELSE imageLoop(text, opts, m[3] + 1,
                 Append(before, InlineMedia(SubSeq(text, m[2] + 2, m[3] - 1),
                                            SubSeq(text, m[1] + 2, m[2] - 1))))

imageFrom(text, opts, lastIndex, acc, m) ==
  Only({imageMatch(text, opts, m, before) :
          before \in {Before(text, opts, lastIndex, acc, m[1])}})

imageLoop(text, opts, lastIndex, acc) ==
  Only({imageFrom(text, opts, lastIndex, acc, m) : m \in {FirstImage(text, lastIndex)}})

parseInlineContent(text, opts) ==
  IF FirstTask(text, 1) # 0 THEN taskLoop(text, opts, 1, <<>>)
  ELSE IF FirstImage(text, 1)[1] # 0 THEN imageLoop(text, opts, 1, <<>>)
  ELSE splitTextIntoParts(text, opts, <<>>)

\* the one-row, one-cell table of HtmlWithTable
domTableToADF(html) ==
  [type |-> "table",
   content |-> <<[type |-> "tableRow",
                  content |-> <<TableCellNode("tableCell",
                                   parseInlineContent(<<"x">>, <<>>))>>]>>]

parseHtmlTable(html) ==
  IF ~DomHasTable(html) THEN Thrown(InvalidHtmlTableMessage)
  ELSE Resolved(domTableToADF(html))

MediaSingle(mediaAttrs) ==
  [type |-> "mediaSingle", attrs |-> [layout |-> "center"],
   content |-> <<[type |-> "media", attrs |-> mediaAttrs]>>]

ExternalMedia(token) ==
  MediaSingle([type |-> "external", url |-> token.href, alt |-> token.text])

UploadRequested(opts) ==
  opts.uploadImages /\ opts.confluenceClient /\ opts.spaceKey # ""

\* uploadImage's answer for a path the asset store accepts
UploadId(href) == "att-" \o href

\* what uploadImage throws for a path the asset store refuses
UploadFailedMessage == "Failed to upload image"

\* handleImage without its catch
handleImageUncaught(token, opts) ==
  IF ~UploadRequested(opts) THEN Resolved(ExternalMedia(token))
  ELSE IF token.href \in UploadableImages
       THEN Resolved(MediaSingle([type |-> "file", id |-> UploadId(token.href),
                                  collection |-> "contentId", alt |-> token.text]))
       ELSE Thrown(UploadFailedMessage)

handleImage(token, opts) ==
  IF ~UploadRequested(opts) THEN Resolved(ExternalMedia(token))
  ELSE IF token.href \in UploadableImages
       THEN Resolved(MediaSingle([type |-> "file", id |-> UploadId(token.href),
                                  collection |-> "contentId", alt |-> token.text]))
       ELSE Resolved(ExternalMedia(token))

\* ---- parseCsvToTable ----
\* Delimited text is a sequence of pieces: a field's text, the delimiter, the
\* line break "\n", the quote and the blank.  csv-parse is outside the
\* repository; csvParse is what it answers under the options the code passes
\* (trim, skip_empty_lines and relax_column_count always on).
CsvQuote == "\""

\* CsvOptions, "undefined" for a property that is not set
NoCsvOptions == [delimiter |-> "undefined", hasHeader |-> "undefined"]

\* the pieces of s between the separators
RECURSIVE SplitAt(_, _)
SplitAt(s, sep) ==
  IF \A i \in DOMAIN s : s[i] # sep THEN <<s>>
  ELSE LET k == CHOOSE i \in DOMAIN s : s[i] = sep /\ \A j \in 1..(i - 1) : s[j] # sep
       IN  <<SubSeq(s, 1, k - 1)>> \o SplitAt(SubSeq(s, k + 1, Len(s)), sep)

\* a field is sound when it has no quote or is wrapped in one pair of quotes
FieldSound(f) ==
  \/ \A i \in DOMAIN f : f[i] # CsvQuote
  \/ /\ Len(f) >= 2 /\ f[1] = CsvQuote /\ f[Len(f)] = CsvQuote
     /\ \A i \in 2..(Len(f) - 1) : f[i] # CsvQuote

FieldValue(f) ==
  IF f # <<>> /\ f[1] = CsvQuote THEN SubSeq(f, 2, Len(f) - 1) ELSE f

\* the trimmed fields of the lines that are not empty
CsvFieldsOf(line, delimiter) ==
  LET raw == SplitAt(line, delimiter)
  IN  [i \in DOMAIN raw |-> Trim(raw[i])]

CsvLines(text, delimiter) ==
  LET lines == SelectSeq(SplitAt(text, "\n"), LAMBDA l : l # <<>>)
  IN  [i \in DOMAIN lines |-> CsvFieldsOf(lines[i], delimiter)]

\* obj[key] = value on an object held as the sequence of its entries: a key
\* that is there keeps its place and takes the new value
ObjPut(obj, key, value) ==
  IF \E i \in DOMAIN obj : obj[i][1] = key
  THEN [i \in DOMAIN obj |-> IF obj[i][1] = key THEN <<key, value>> ELSE obj[i]]
  ELSE Append(obj, <<key, value>>)

\* the record of one line under `columns: true`: an object keyed by the
\* header names (names that are not array indices)
RECURSIVE RecordFrom(_, _, _, _)
RecordFrom(columns, fields, i, obj) ==
  IF i > Len(fields) \/ i > Len(columns) THEN obj
  ELSE RecordFrom(columns, fields, i + 1, ObjPut(obj, columns[i], fields[i]))

\* the record of one line under `columns: false`: an array, whose keys are
\* its indices
ArrayRecord(fields) == [i \in DOMAIN fields |-> <<<<ToString(i - 1)>>, fields[i]>>]

CsvErrorMessage == "Quote Not Closed"

csvParse(text, columns, delimiter) ==
  LET lines == CsvLines(text, delimiter)
      sound == \A i \in DOMAIN lines : \A j \in DOMAIN lines[i] : FieldSound(lines[i][j])
      values == [i \in DOMAIN lines |->
                   [j \in DOMAIN lines[i] |-> FieldValue(lines[i][j])]]
  IN  IF ~sound THEN [kind |-> "error", message |-> CsvErrorMessage]
      ELSE IF columns
      THEN [kind |-> "end",
            records |-> [i \in 1..(Len(values) - 1) |->
                           RecordFrom(values[1], values[i + 1], 1, <<>>)]]
      ELSE [kind |-> "end",
            records |-> [i \in DOMAIN values |-> ArrayRecord(values[i])]]

EmptyTable == [type |-> "table", content |-> <<>>]

TableRow(cells) == [type |-> "tableRow", content |-> cells]

\* the handler of the parser's 'error' event
CsvErrorTable(message) ==
  [type |-> "table",
   content |-> <<TableRow(<<TableCellNode("tableHeader", <<TextNode(<<"Error">>)>>)>>),
                 TableRow(<<TableCellNode("tableCell",
                              <<TextNode(<<"Could not parse CSV: ", message>>)>>)>>)>>]

\* a handler that rejects with the parser's error
parseCsvToTableRejecting(text, csvOptions) ==
  LET r == csvParse(text, csvOptions.hasHeader # "false",
                    IF csvOptions.delimiter = "undefined" THEN "," ELSE csvOptions.delimiter)
  IN  IF r.kind = "error" THEN Thrown(r.message) ELSE Resolved(EmptyTable)

\* the handler of the parser's 'end' event
CsvTable(records) ==
  [type |-> "table",
   content |->
     <<TableRow([j \in DOMAIN records[1] |->
                   TableCellNode("tableHeader", <<TextNode(records[1][j][1])>>)])>>
     \o [i \in DOMAIN records |->
           TableRow([j \in DOMAIN records[i] |->
                       TableCellNode("tableCell", <<TextNode(records[i][j][2])>>)])]]

\* a builder that always takes the first line as the header
parseCsvToTableFirstLineHeader(text, csvOptions) ==
  IF Trim(text) = <<>> THEN Resolved(EmptyTable)
  ELSE LET r == csvParse(text, TRUE,
                         IF csvOptions.delimiter = "undefined" THEN ","
                         ELSE csvOptions.delimiter)
       IN  IF r.kind = "error" THEN Resolved(CsvErrorTable(r.message))
           ELSE IF r.records = <<>> THEN Resolved(EmptyTable)
           ELSE Resolved(CsvTable(r.records))

parseCsvToTable(text, csvOptions) ==
  IF Trim(text) = <<>> THEN Resolved(EmptyTable)
  ELSE LET r == csvParse(text, csvOptions.hasHeader # "false",
                         IF csvOptions.delimiter = "undefined" THEN ","
                         ELSE csvOptions.delimiter)
       IN  IF r.kind = "error" THEN Resolved(CsvErrorTable(r.message))
           ELSE IF r.records = <<>> THEN Resolved(EmptyTable)
           ELSE Resolved(CsvTable(r.records))

\* ---- the file-import builder: parseToTable and createTableContent ----
RecordLengthMessage == "Invalid Record Length"

\* csv-parse without relax_column_count: a line whose number of fields
\* differs from the first line's is an error
csvParseStrict(text, columns, delimiter) ==
  LET lines == CsvLines(text, delimiter)
  IN  IF csvParse(text, columns, delimiter).kind = "error"
      THEN csvParse(text, columns, delimiter)
      ELSE IF \E i \in DOMAIN lines : Len(lines[i]) # Len(lines[1])
      THEN [kind |-> "error", message |-> RecordLengthMessage]
      ELSE csvParse(text, columns, delimiter)

FileTableCell(kind, text) == TableCellNode(kind, <<Paragraph(<<TextNode(text)>>)>>)

createTableContent(records, hasHeader) ==
  LET startIndex == IF hasHeader THEN 1 ELSE 0
  IN  IF records = <<>> THEN <<>>
      ELSE (IF hasHeader
            THEN <<TableRow([j \in DOMAIN records[1] |->
                               FileTableCell("tableHeader", records[1][j][1])])>>
            ELSE <<>>)
           \o [i \in 1..(Len(records) - startIndex) |->
                 TableRow([j \in DOMAIN records[i + startIndex] |->
                             FileTableCell("tableCell", records[i + startIndex][j][2])])]

parseToTable(csvContent, csvOptions) ==
  LET hasHeader == csvOptions.hasHeader # "false"
      r == csvParseStrict(csvContent, hasHeader,
                          IF csvOptions.delimiter = "undefined" THEN ","
                          ELSE csvOptions.delimiter)
  IN  IF r.kind = "error" THEN Thrown(r.message)
      ELSE Resolved([type |-> "table",
                     attrs |-> [isNumberColumnEnabled |-> FALSE, layout |-> "default"],
                     content |-> createTableContent(r.records, hasHeader)])

\* CsvConverter.convert: the same builder with `columns: true` fixed
CsvConverterConvert(text) == parseCsvToTable(text, NoCsvOptions)

\* the content of data.csv
DataCsv == <<"h", "\n", "v">>

csvFileTable == parseCsvToTable(DataCsv, NoCsvOptions).node

handleCsvImport(csvPath, opts) ==
  IF csvPath \in ReadableFiles THEN Resolved(csvFileTable) ELSE ResolvedNull

paragraphCase(token, opts) ==
  IF StartsWith(token.text, TableOpenTag) THEN parseHtmlTable(token.text)
  ELSE Resolved([type |-> "paragraph",
                 content |-> parseInlineContent(token.text, opts)])

\* ---- the list case ----
\* The text of a list item is a sequence of pieces: a word, or one of the
\* characters the code's patterns look at (line break, blank, "-", a digit,
\* ".", "[", "]", "x", "X", "*", "~", "_").

\* \d* from position i
RECURSIVE SkipDigits(_, _)
SkipDigits(s, i) == IF At(s, i) \in Digits THEN SkipDigits(s, i + 1) ELSE i

\* `-` or `\d+\.` at position i: the position after it, 0 without a match
MarkerEnd(kind, s, i) ==
  IF kind = "bulleted" THEN (IF At(s, i) = "-" THEN i + 1 ELSE 0)
  ELSE IF At(s, i) \in Digits /\ At(s, SkipDigits(s, i)) = "."
       THEN SkipDigits(s, i) + 1 ELSE 0

\* `\s+\[([ xX])\]` at position j: the position of the "[", 0 without a match
BoxPos(s, j) ==
  IF j > 0 /\ At(s, j) \in Whitespace
     /\ At(s, SkipWs(s, j)) = "[" /\ At(s, SkipWs(s, j) + 1) \in Boxes
     /\ At(s, SkipWs(s, j) + 2) = "]"
  THEN SkipWs(s, j) ELSE 0

\* /^(.*?)\n\s*-\s+\[([ xX])\]/s and /^(.*?)\n\s*\d+\.\s+\[([ xX])\]/s with a
\* first group of g pieces
NestedTaskAt(kind, s, g) ==
  /\ At(s, g + 1) = "\n"
  /\ BoxPos(s, MarkerEnd(kind, s, SkipWs(s, g + 2))) # 0

\* item.text.match(...): the first group of the match, the group being lazy
NestedTaskMatch(kind, s) ==
  IF \E g \in 0..Len(s) : NestedTaskAt(kind, s, g)
  THEN [found |-> TRUE,
        group |-> SubSeq(s, 1, CHOOSE g \in 0..Len(s) :
                                  /\ NestedTaskAt(kind, s, g)
                                  /\ \A h \in 0..(g - 1) : ~NestedTaskAt(kind, s, h))]
  ELSE [found |-> FALSE, group |-> <<>>]

\* Math.random: the id is not read by anything in the conversion
generateLocalId == "task-id"

\* /^open(.*)close$/ on a text: the marker at both ends, no line break inside
Enclosed(text, marker) ==
  /\ Len(text) >= 2 * Len(marker)
  /\ SubSeq(text, 1, Len(marker)) = marker
  /\ SubSeq(text, Len(text) - Len(marker) + 1, Len(text)) = marker
  /\ \A i \in DOMAIN text : text[i] # "\n"

Inner(text, marker) == SubSeq(text, Len(marker) + 1, Len(text) - Len(marker))

MarkedLeaf(text, mark) == <<[type |-> "text", text |-> text, marks |-> <<[type |-> mark]>>]>>

processTaskItemContent(text, opts) ==
  CASE Enclosed(text, <<"*", "*">>) -> MarkedLeaf(Inner(text, <<"*", "*">>), "strong")
    [] Enclosed(text, <<"*">>)      -> MarkedLeaf(Inner(text, <<"*">>), "em")
    [] Enclosed(text, <<"~", "~">>) -> MarkedLeaf(Inner(text, <<"~", "~">>), "strike")
    [] Enclosed(text, <<"_", "_">>) -> MarkedLeaf(Inner(text, <<"_", "_">>), "em")
    [] Enclosed(text, <<"_">>)      -> MarkedLeaf(Inner(text, <<"_">>), "em")
    [] OTHER                        -> <<TextNode(text)>>

TaskItem(state, c) ==
  [type |-> "taskItem", attrs |-> [localId |-> generateLocalId, state |-> state],
   content |-> c]

\* /^\s*-\s+\[([ xX])\]\s+(.*?)(?:\n|$)/gm and its numbered twin tried at
\* position p: the match, or found = FALSE
TaskLineAt(kind, s, p) ==
  LET k == BoxPos(s, MarkerEnd(kind, s, SkipWs(s, p)))
      l == SkipWs(s, k + 3)
      m == CHOOSE e \in l..(Len(s) + 1) :
             /\ (e > Len(s) \/ s[e] = "\n")
             /\ \A h \in l..(e - 1) : s[h] # "\n"
  IN  IF (p = 1 \/ At(s, p - 1) = "\n") /\ k # 0 /\ At(s, k + 3) \in Whitespace
      THEN [found |-> TRUE, index |-> p, box |-> s[k + 1],
            label |-> SubSeq(s, l, m - 1),
            end |-> IF m <= Len(s) THEN m + 1 ELSE m]
      ELSE [found |-> FALSE, index |-> 0, box |-> "", label |-> <<>>, end |-> 0]

\* text.matchAll: the matches from position `from` on, left to right
RECURSIVE TaskLineMatches(_, _, _)
TaskLineMatches(kind, s, from) ==
  IF \A p \in from..Len(s) : ~TaskLineAt(kind, s, p).found THEN <<>>
  ELSE LET p == CHOOSE q \in from..Len(s) :
                  /\ TaskLineAt(kind, s, q).found
                  /\ \A h \in from..(q - 1) : ~TaskLineAt(kind, s, h).found
           m == TaskLineAt(kind, s, p)
       IN  <<m>> \o TaskLineMatches(kind, s, m.end)

\* allMatches.sort by index
RECURSIVE SortByIndex(_)
SortByIndex(ms) ==
  IF ms = <<>> THEN <<>>
  ELSE LET i == CHOOSE j \in DOMAIN ms :
                  /\ \A h \in DOMAIN ms : ms[j].index <= ms[h].index
                  /\ \A h \in 1..(j - 1) : ms[h].index # ms[j].index
       IN  <<ms[i]>> \o SortByIndex(SubSeq(ms, 1, i - 1) \o SubSeq(ms, i + 1, Len(ms)))

\* the formatting detection of processNestedTaskList, in its own order
nestedTaskContent(taskText) ==
  CASE Enclosed(taskText, <<"*", "*">>) ->
         MarkedLeaf(Inner(taskText, <<"*", "*">>), "strong")
    [] Enclosed(taskText, <<"~", "~">>) ->
         MarkedLeaf(Inner(taskText, <<"~", "~">>), "strike")
    [] Enclosed(taskText, <<"_", "_">>) ->
         MarkedLeaf(Inner(taskText, <<"_", "_">>), "em")
    [] Enclosed(taskText, <<"*">>)      -> MarkedLeaf(Inner(taskText, <<"*">>), "em")
    [] Enclosed(taskText, <<"_">>)      -> MarkedLeaf(Inner(taskText, <<"_">>), "em")
    [] OTHER                            -> <<TextNode(taskText)>>

\* the list of nodes, <<>> for null
processNestedTaskList(text) ==
  LET allMatches == SortByIndex(TaskLineMatches("bulleted", text, 1)
                                \o TaskLineMatches("numbered", text, 1))
  IN  IF allMatches = <<>> THEN <<>>
      ELSE <<[type |-> "taskList",
              content |-> [i \in DOMAIN allMatches |->
                 TaskItem(IF allMatches[i].box \in {"x", "X"} THEN "DONE" ELSE "TODO",
                          nestedTaskContent(Trim(allMatches[i].label)))]]>>

\* adfBuilders.taskList and adfBuilders.taskItem are functions of the
\* imported builders module
TaskBuildersAvailable == TRUE

\* an item of a list that is not turned into a task list
listItemOf(item, opts) ==
  LET bulleted == NestedTaskMatch("bulleted", item.text)
      numbered == NestedTaskMatch("numbered", item.text)
      match == IF bulleted.found THEN bulleted ELSE numbered
      mainText == Trim(match.group)
  IN  IF item.task
      THEN [type |-> "listItem",
            content |-> <<Paragraph(<<[type |-> "text", text |-> item.text,
                marks |-> <<[type |-> "action",
                             attrs |-> [state |-> IF item.checked THEN "done"
                                                  ELSE "todo"]]>>]>>)>>]
      ELSE IF bulleted.found \/ numbered.found
      THEN [type |-> "listItem",
            content |-> <<Paragraph(parseInlineContent(mainText, opts))>>
                        \o processNestedTaskList(
                             Trim(SubSeq(item.text, Len(mainText) + 1, Len(item.text))))]
      ELSE [type |-> "listItem",
            content |-> <<Paragraph(parseInlineContent(item.text, opts))>>]

\* the list case as it runs without the task builders: never a task list
listCaseWithoutBuilders(token, opts) ==
  Resolved([type |-> IF token.ordered THEN "orderedList" ELSE "bulletList",
            content |-> [i \in DOMAIN token.items |-> listItemOf(token.items[i], opts)]])

\* a list case that makes a task list only when every item is a task
listCaseEveryItem(token, opts) ==
  IF (\A i \in DOMAIN token.items : token.items[i].task) /\ TaskBuildersAvailable
  THEN Resolved([type |-> "taskList",
                 content |-> [i \in DOMAIN token.items |->
                    TaskItem(IF token.items[i].checked THEN "DONE" ELSE "TODO",
                             processTaskItemContent(token.items[i].text, opts))]])
  ELSE listCaseWithoutBuilders(token, opts)

listCase(token, opts) ==
  IF (\E i \in DOMAIN token.items : token.items[i].task) /\ TaskBuildersAvailable
  THEN Resolved([type |-> "taskList",
                 content |-> [i \in DOMAIN token.items |->
                    TaskItem(IF token.items[i].checked THEN "DONE" ELSE "TODO",
                             processTaskItemContent(token.items[i].text, opts))]])
  ELSE Resolved([type |-> IF token.ordered THEN "orderedList" ELSE "bulletList",
                 content |-> [i \in DOMAIN token.items |->
                                listItemOf(token.items[i], opts)]])

\* fence languages with codeToken.lang.startsWith('csv')
CsvLangs == {"csv", "csv;no-header", "csv;delimiter=|"}

\* the CsvOptions read from the fence language: split(';'), then the
\* key=value pairs of the second part
csvOptionsOf(lang) ==
  CASE lang = "csv;no-header"   -> [NoCsvOptions EXCEPT !.hasHeader = "false"]
    [] lang = "csv;delimiter=|" -> [NoCsvOptions EXCEPT !.delimiter = "|"]
    [] OTHER                    -> NoCsvOptions

\* the csv branch of the code case, with its fallback to a code block
csvCodeBlock(token) ==
  LET r == parseCsvToTable(token.text, csvOptionsOf(token.lang))
  IN  IF r.kind = "throw"
      THEN Resolved([type |-> "codeBlock", attrs |-> [language |-> "csv"],
                     content |-> <<TextNode(token.text)>>])
      ELSE r

\* the options object {} that parseTable hands to the resolver
NoOptions == <<>>

parseTable(token) ==
  [type |-> "table",
   content |->
     (IF Len(token.header) > 0
      THEN <<[type |-> "tableRow",
              content |-> [i \in DOMAIN token.header |->
                 TableCellNode("tableHeader",
                               parseInlineContent(token.header[i].text, NoOptions))]]>>
      ELSE <<>>)
     \o [r \in DOMAIN token.rows |->
          [type |-> "tableRow",
           content |-> [i \in DOMAIN token.rows[r] |->
              TableCellNode("tableCell",
                            parseInlineContent(token.rows[r][i].text, NoOptions))]]]]

tokenToADFNode(token, opts) ==
  CASE token.type = "image" ->
         IF token.href \in CsvPaths THEN handleCsvImport(token.href, opts)
         ELSE handleImage(token, opts)
    [] token.type = "heading" ->
         Resolved([type |-> "heading", attrs |-> [level |-> token.depth],
                   content |-> parseInlineContent(token.text, opts)])
    [] token.type = "paragraph" -> paragraphCase(token, opts)
    [] token.type = "list" -> listCase(token, opts)
    [] token.type = "table" -> Resolved(parseTable(token))
    [] token.type = "code" ->
         IF token.lang \in CsvLangs THEN csvCodeBlock(token)
         ELSE Resolved([type |-> "codeBlock",
                        attrs |-> [language |-> IF token.lang # "" THEN token.lang
                                                ELSE "plaintext"],
                        content |-> <<TextNode(token.text)>>])
    [] OTHER -> ResolvedNull

\* whether tokenToADFNode suspends for this token: fs.readFile in
\* handleCsvImport, confluenceClient.uploadImage in handleImage, the parser's
\* events in parseCsvToTable
AwaitsIO(token, opts) ==
  \/ /\ token.type = "image"
     /\ (token.href \in CsvPaths \/ UploadRequested(opts))
  \/ /\ token.type = "code"
     /\ token.lang \in CsvLangs

\* ---- validateADF, basic validation ----
\* !adf || typeof adf !== 'object' || !adf.type || adf.type !== 'doc'
invalidRoot(t) ==
  IF Has(t, "null") \/ Has(t, "primitive") THEN TRUE
  ELSE IF ~Has(t, "type") THEN TRUE
  ELSE t.type = "" \/ t.type # "doc"

\* a check that only asks for an object with some type
basicValidationAnyType(t) ==
  IF Has(t, "null") \/ Has(t, "primitive") THEN FALSE
  ELSE IF ~Has(t, "type") THEN FALSE
  ELSE t.type # ""

basicValidation(t) == ~invalidRoot(t)

\* ---- the catch block of validateADF: warn and continue ----
validateCatchRethrows == "rethrow"

validateCatch == "continue"

\* ---- the for loop of convertToADF: `await this.tokenToADFNode(...)` ----
\* a loop that starts the next token without waiting
LoopNoAwait(c) == TRUE

LoopReady(c) == inflight[c] = {}

SchemaDocs == {"official", "malformed"}

DefaultOptions ==
  [useOfficialSchema |-> FALSE, uploadImages |-> FALSE, confluenceClient |-> FALSE,
   spaceKey |-> "", useMarkdownMacro |-> FALSE]

\* ---- createMarkdownMacroADF ----
\* a macro node that carries the source as it was given
createMarkdownMacroADFUntrimmed(md) ==
  Doc(<<[type |-> "extension",
         attrs |-> [extensionType |-> MacroCore, extensionKey |-> "markdown",
                    parameters |-> <<<<"macroParams", "[object Object]">>>>],
         content |-> <<TextNode(md)>>]>>)

\* `parameters: {macroParams: {}}` is the sequence of its entries, the empty
\* object written as a template literal writes it
createMarkdownMacroADF(md) ==
  Doc(<<[type |-> "extension",
         attrs |-> [extensionType |-> MacroCore, extensionKey |-> "markdown",
                    parameters |-> <<<<"macroParams", "[object Object]">>>>],
         content |-> <<TextNode(Trim(md))>>]>>)

Push(seq, r) == IF r.kind = "node" THEN Append(seq, r.node) ELSE seq

ConvInitWith(cs, files) ==
  /\ adfSchema = "null"
  /\ cacheFile \in files
  /\ fetched = {}
  /\ callers = cs
  /\ pc = [c \in Calls |-> "idle"]
  /\ entry = [c \in Calls |-> "none"]
  /\ tokens = [c \in Calls |-> <<>>]
  /\ options = [c \in Calls |-> DefaultOptions]
  /\ idx = [c \in Calls |-> 0]
  /\ inflight = [c \in Calls |-> {}]
  /\ content = [c \in Calls |-> <<>>]
  /\ adfOf = [c \in Calls |-> Unset]
  /\ schema = [c \in Calls |-> "null"]
  /\ body = [c \in Calls |-> "null"]
  /\ schemaLog = [c \in Calls |-> {}]
  /\ ret = [c \in Calls |-> Unset]
  /\ error = [c \in Calls |-> ""]
  /\ markdown = [c \in Calls |-> <<>>]
  /\ lexed = [c \in Calls |-> FALSE]

\* convertToADF is called with a source and options.  With useMarkdownMacro
\* it returns createMarkdownMacroADF(markdown) at once; otherwise marked.lexer
\* cuts the source into the token list and the for loop is entered.
Call(c, lists, opts) ==
  /\ c \in callers
  /\ pc[c] = "idle"
  /\ entry' = [entry EXCEPT ![c] = "convertToADF"]
  /\ \E o \in opts :
       /\ options' = [options EXCEPT ![c] = o]
       /\ IF o.useMarkdownMacro
          THEN \E md \in MarkdownSamples \cup {RawOf(tl) : tl \in lists} :
                 /\ markdown' = [markdown EXCEPT ![c] = md]
                 /\ ret' = [ret EXCEPT ![c] = createMarkdownMacroADF(md)]
                 /\ pc' = [pc EXCEPT ![c] = "done"]
                 /\ UNCHANGED <<tokens, lexed>>
          ELSE \E tl \in lists :
                 /\ markdown' = [markdown EXCEPT ![c] = RawOf(tl)]
                 /\ tokens' = [tokens EXCEPT ![c] = tl]
                 /\ lexed' = [lexed EXCEPT ![c] = TRUE]
                 /\ pc' = [pc EXCEPT ![c] = "loop"]
                 /\ UNCHANGED ret
  /\ UNCHANGED <<envVars, idx, inflight, content, adfOf, schema, body, schemaLog,
                 error, serVars, csvVars, inlVars, pubVars>>

CallConvertToADF(c) == Call(c, TokenLists, OptionSamples)

\* validateADF is handed a tree by a direct caller
CallValidateADF(c) ==
  /\ c \in callers
  /\ pc[c] = "idle"
  /\ \E t \in RootSamples, s \in BOOLEAN :
       /\ adfOf' = [adfOf EXCEPT ![c] = t]
       /\ options' = [options EXCEPT ![c] = [DefaultOptions EXCEPT !.useOfficialSchema = s]]
  /\ entry' = [entry EXCEPT ![c] = "validateADF"]
  /\ pc' = [pc EXCEPT ![c] = "validate"]
  /\ UNCHANGED <<envVars, tokens, idx, inflight, content, schema, body, schemaLog,
                 ret, error, serVars, srcVars, csvVars, inlVars, pubVars>>

\* one iteration of the for loop up to its first suspension on I/O
TokenStep(c) ==
  /\ pc[c] = "loop"
  /\ idx[c] < Len(tokens[c])
  /\ LoopReady(c)
  /\ LET i == idx[c] + 1
         token == tokens[c][i]
         r == tokenToADFNode(token, options[c])
     IN  /\ idx' = [idx EXCEPT ![c] = i]
         /\ IF AwaitsIO(token, options[c])
            THEN /\ inflight' = [inflight EXCEPT ![c] = @ \cup {i}]
                 /\ UNCHANGED <<pc, content, error>>
            ELSE IF r.kind = "throw"
            THEN /\ pc' = [pc EXCEPT ![c] = "threw"]
                 /\ error' = [error EXCEPT ![c] = r.message]
                 /\ UNCHANGED <<inflight, content>>
            ELSE /\ content' = [content EXCEPT ![c] = Push(@, r)]
                 /\ UNCHANGED <<pc, inflight, error>>
  /\ UNCHANGED <<envVars, entry, tokens, options, adfOf, schema, body, schemaLog,
                 ret, serVars, srcVars, csvVars, inlVars, pubVars>>

\* the file read or the upload of token i settles and its node is pushed
SubstepSettled(c, i) ==
  /\ pc[c] = "loop"
  /\ i \in inflight[c]
  /\ inflight' = [inflight EXCEPT ![c] = @ \ {i}]
  /\ content' = [content EXCEPT ![c] = Push(@, tokenToADFNode(tokens[c][i], options[c]))]
  /\ UNCHANGED <<envVars, pc, entry, tokens, options, idx, adfOf, schema, body,
                 schemaLog, ret, error, serVars, srcVars, csvVars, inlVars, pubVars>>

\* the loop is over: the doc is built and handed to validateADF
LoopExit(c) ==
  /\ pc[c] = "loop"
  /\ idx[c] = Len(tokens[c])
  /\ inflight[c] = {}
  /\ adfOf' = [adfOf EXCEPT ![c] = Doc(content[c])]
  /\ pc' = [pc EXCEPT ![c] = "validate"]
  /\ UNCHANGED <<envVars, entry, tokens, options, idx, inflight, content, schema,
                 body, schemaLog, ret, error, serVars, srcVars, csvVars, inlVars, pubVars>>

\* validateADF returns true; convertToADF returns the doc
Finished(c) ==
  /\ pc' = [pc EXCEPT ![c] = "done"]
  /\ ret' = [ret EXCEPT ![c] = IF entry[c] = "convertToADF" THEN adfOf[c] ELSE Unset]
  /\ UNCHANGED error

\* the try block of validateADF ended with an error
SchemaCheckFailed(c) ==
  IF validateCatch = "continue" THEN Finished(c)
  ELSE /\ pc' = [pc EXCEPT ![c] = "threw"]
       /\ error' = [error EXCEPT ![c] = "ADF Schema validation failed"]
       /\ UNCHANGED ret

\* validateADF up to its first await: the basic check, then getADFSchema up
\* to fs.mkdir
ValidateADF(c) ==
  /\ pc[c] = "validate"
  /\ IF ~basicValidation(adfOf[c])
     THEN /\ pc' = [pc EXCEPT ![c] = "threw"]
          /\ error' = [error EXCEPT ![c] = InvalidADFMessage]
          /\ UNCHANGED <<ret, schema>>
     ELSE IF ~options[c].useOfficialSchema
     THEN Finished(c) /\ UNCHANGED schema
     ELSE IF adfSchema # "null"
     THEN /\ schema' = [schema EXCEPT ![c] = adfSchema]
          /\ pc' = [pc EXCEPT ![c] = "compile"]
          /\ UNCHANGED <<ret, error>>
     ELSE /\ pc' = [pc EXCEPT ![c] = "mkdir"]
          /\ UNCHANGED <<ret, error, schema>>
  /\ UNCHANGED <<envVars, entry, tokens, options, idx, inflight, content, adfOf,
                 body, schemaLog, serVars, srcVars, csvVars, inlVars, pubVars>>

\* getADFSchema's outer catch: log the error and return null
LoadFailed(c, why) ==
  /\ schema' = [schema EXCEPT ![c] = "null"]
  /\ schemaLog' = [schemaLog EXCEPT ![c] = @ \cup {why}]
  /\ pc' = [pc EXCEPT ![c] = "compile"]

\* fs.mkdir settles
Mkdir(c) ==
  /\ pc[c] = "mkdir"
  /\ \E ok \in BOOLEAN :
       IF ok THEN /\ pc' = [pc EXCEPT ![c] = "readFile"]
                  /\ UNCHANGED <<schema, schemaLog>>
       ELSE LoadFailed(c, "mkdir")
  /\ UNCHANGED <<envVars, entry, tokens, options, idx, inflight, content, adfOf,
                 body, ret, error, serVars, srcVars, csvVars, inlVars, pubVars>>

\* fs.readFile settles: the parsed cache file becomes the schema, or the
\* inner catch requests the download
ReadFile(c) ==
  /\ pc[c] = "readFile"
  /\ \E readable \in BOOLEAN :
       IF readable /\ cacheFile \in SchemaDocs
       THEN /\ adfSchema' = cacheFile
            /\ schema' = [schema EXCEPT ![c] = cacheFile]
            /\ pc' = [pc EXCEPT ![c] = "compile"]
            /\ UNCHANGED fetched
       ELSE /\ fetched' = fetched \cup {c}
            /\ pc' = [pc EXCEPT ![c] = "fetch"]
            /\ UNCHANGED <<adfSchema, schema>>
  /\ UNCHANGED <<cacheFile, callers, entry, tokens, options, idx, inflight, content,
                 adfOf, body, schemaLog, ret, error, serVars, srcVars, csvVars, inlVars, pubVars>>

\* fetch settles
Fetch(c) ==
  /\ pc[c] = "fetch"
  /\ \E outcome \in {"ok", "networkError", "notOk"} :
       IF outcome = "ok" THEN /\ pc' = [pc EXCEPT ![c] = "json"]
                              /\ UNCHANGED <<schema, schemaLog>>
       ELSE LoadFailed(c, outcome)
  /\ UNCHANGED <<envVars, entry, tokens, options, idx, inflight, content, adfOf,
                 body, ret, error, serVars, srcVars, csvVars, inlVars, pubVars>>

\* response.json() settles: the document becomes the in-memory schema and
\* fs.writeFile is started (the file may already be seen truncated)
Json(c) ==
  /\ pc[c] = "json"
  /\ \E outcome \in SchemaDocs \cup {"jsonError"}, truncated \in BOOLEAN :
       IF outcome = "jsonError"
       THEN /\ LoadFailed(c, outcome)
            /\ UNCHANGED <<adfSchema, cacheFile, body>>
       ELSE /\ adfSchema' = outcome
            /\ body' = [body EXCEPT ![c] = outcome]
            /\ cacheFile' = IF truncated THEN "truncated" ELSE cacheFile
            /\ pc' = [pc EXCEPT ![c] = "writeFile"]
            /\ UNCHANGED <<schema, schemaLog>>
  /\ UNCHANGED <<fetched, callers, entry, tokens, options, idx, inflight, content,
                 adfOf, ret, error, serVars, srcVars, csvVars, inlVars, pubVars>>

\* fs.writeFile settles; getADFSchema returns this.adfSchema
WriteFile(c) ==
  /\ pc[c] = "writeFile"
  /\ \E ok \in BOOLEAN, truncated \in BOOLEAN :
       IF ok
       THEN /\ cacheFile' = body[c]
            /\ schema' = [schema EXCEPT ![c] = adfSchema]
            /\ pc' = [pc EXCEPT ![c] = "compile"]
            /\ UNCHANGED schemaLog
       ELSE /\ cacheFile' = IF truncated THEN "truncated" ELSE cacheFile
            /\ LoadFailed(c, "write")
  /\ UNCHANGED <<adfSchema, fetched, callers, entry, tokens, options, idx, inflight,
                 content, adfOf, body, ret, error, serVars, srcVars, csvVars, inlVars, pubVars>>

\* back in validateADF: compile the schema and validate the tree
Compile(c) ==
  /\ pc[c] = "compile"
  /\ IF schema[c] = "null"
     THEN Finished(c) /\ UNCHANGED schemaLog
     ELSE IF schema[c] = "malformed"
     THEN /\ schemaLog' = [schemaLog EXCEPT ![c] = @ \cup {"compile"}]
          /\ SchemaCheckFailed(c)
     ELSE \E valid \in BOOLEAN :
            IF valid THEN Finished(c) /\ UNCHANGED schemaLog
            ELSE /\ schemaLog' = [schemaLog EXCEPT ![c] = @ \cup {"mismatch"}]
                 /\ SchemaCheckFailed(c)
  /\ UNCHANGED <<envVars, entry, tokens, options, idx, inflight, content, adfOf,
                 schema, body, serVars, srcVars, csvVars, inlVars, pubVars>>

SerIdle ==
  /\ adfInput = Doc(<<>>)
  /\ serPc = "off"
  /\ storage = <<>>
  /\ served = <<>>
  /\ serCalls = 0

CsvIdle ==
  /\ csvInput = [builder |-> "none", text |-> <<>>, options |-> NoCsvOptions]
  /\ csvPc = "off"
  /\ csvOut = ResolvedNull

InlineIdle ==
  /\ spanInput = [text |-> <<>>, options |-> DefaultOptions]
  /\ spanPc = "off"
  /\ spanOut = <<>>

NoPage ==
  [id |-> "", title |-> "", ancestors |-> <<>>, parentId |-> "", listed |-> TRUE,
   version |-> 0]

Pending == [kind |-> "pending", message |-> "", id |-> ""]

PubIdle ==
  /\ pubInput = [instanceType |-> "server", title |-> "", parentId |-> "",
                 pageId |-> "", content |-> Doc(<<>>), labels |-> FALSE,
                 pages |-> <<>>]
  /\ pubPc = "off"
  /\ existingPage = NoPage
  /\ requests = <<>>
  /\ pubOut = Pending

Init ==
  /\ ConvInitWith({"c1"}, {"absent", "truncated", "official"})
  /\ SerIdle
  /\ CsvIdle
  /\ InlineIdle /\ PubIdle

Next ==
  \E c \in Calls :
    \/ CallConvertToADF(c)
    \/ CallValidateADF(c)
    \/ TokenStep(c)
    \/ \E i \in 1..MaxTokens + 1 : SubstepSettled(c, i)
    \/ LoopExit(c)
    \/ ValidateADF(c)
    \/ Mkdir(c)
    \/ ReadFile(c)
    \/ Fetch(c)
    \/ Json(c)
    \/ WriteFile(c)
    \/ Compile(c)

Spec == Init /\ [][Next]_vars

(***************************************************************************)
(* Two conversions of an empty source on one Converter, both asking for    *)
(* official-schema validation, with an empty cache.                        *)
(***************************************************************************)
SchemaOptions == {[DefaultOptions EXCEPT !.useOfficialSchema = TRUE]}

CallConvertEmpty(c) == Call(c, {<<>>}, SchemaOptions)

InitConc == ConvInitWith(Calls, {"absent"}) /\ SerIdle /\ CsvIdle /\ InlineIdle /\ PubIdle

NextConc ==
  \E c \in Calls :
    \/ CallConvertEmpty(c)
    \/ LoopExit(c)
    \/ ValidateADF(c)
    \/ Mkdir(c)
    \/ ReadFile(c)
    \/ Fetch(c)
    \/ Json(c)
    \/ WriteFile(c)
    \/ Compile(c)

SpecConc == InitConc /\ [][NextConc]_vars

(***************************************************************************)
(* Properties of the forward conversion, checked under Spec (one call) and *)
(* SpecConc (two concurrent calls).                                        *)
(***************************************************************************)
RootIsDoc(t) == Has(t, "type") /\ t.type = "doc"

\* validateADF has been entered with a tree and has passed its first check
PastBasicCheck(c) == adfOf[c] # Unset /\ pc[c] # "validate"

\* the nodes of the tokens that yield one, in token order
RECURSIVE ExpectedContent(_, _)
ExpectedContent(toks, opts) ==
  IF toks = <<>> THEN <<>>
  ELSE LET r == tokenToADFNode(Head(toks), opts)
       IN  (IF r.kind = "node" THEN <<r.node>> ELSE <<>>)
           \o ExpectedContent(Tail(toks), opts)

\* the doc a finished call resolves to under the given options
ExpectedDoc(c, opts) ==
  IF opts.useMarkdownMacro THEN createMarkdownMacroADF(markdown[c])
  ELSE Doc(ExpectedContent(tokens[c], opts))

\* C1: validating a tree whose root is missing or is not of type doc throws
\* the error naming the required root type, and no tree is returned.
C1_InvalidRootThrows ==
  \A c \in Calls :
    (PastBasicCheck(c) /\ ~RootIsDoc(adfOf[c])) =>
       /\ pc[c] = "threw"
       /\ error[c] = InvalidADFMessage
       /\ ret[c] = Unset

C1_Witness ==
  \E c \in Calls :
    /\ pc[c] = "threw"
    /\ Has(adfOf[c], "type") /\ adfOf[c].type = "paragraph"
    /\ error[c] = InvalidADFMessage

\* C2: convertToADF rejects only with the structural root-type error; every
\* failure of a sub-step is caught where it occurs.
C2_OnlyStructuralFailure ==
  \A c \in Calls :
    (entry[c] = "convertToADF" /\ pc[c] = "threw") => error[c] = InvalidADFMessage

\* C3: with official-schema validation requested, no failure to load,
\* compile or satisfy the schema aborts the conversion, and the call
\* resolves to the doc it resolves to with the option off.
C3_SchemaFailureNeverAborts ==
  \A c \in Calls :
    (entry[c] = "convertToADF" /\ options[c].useOfficialSchema) =>
       /\ pc[c] = "threw" => (schemaLog[c] = {} /\ adfOf[c] = Unset)
       /\ pc[c] = "done" =>
            ret[c] = ExpectedDoc(c, [options[c] EXCEPT !.useOfficialSchema = FALSE])

C3_Witness ==
  \E c \in Calls :
    /\ entry[c] = "convertToADF" /\ options[c].useOfficialSchema
    /\ pc[c] = "done"
    /\ "mismatch" \in schemaLog[c]
    /\ Len(ret[c].content) = 2

\* C4: the doc built from the tokens has as content the nodes of the
\* top-level tokens in source order; while the sub-step of a token is pending, the content holds exactly
\* the nodes of the tokens before it, and tokens without a node leave no gap.
C4_ContentInSourceOrder ==
  \A c \in Calls :
    (entry[c] = "convertToADF" /\ lexed[c]) =>
       /\ \A i \in inflight[c] :
            content[c] = ExpectedContent(SubSeq(tokens[c], 1, i - 1), options[c])
       /\ (pc[c] = "loop" /\ inflight[c] = {}) =>
            content[c] = ExpectedContent(SubSeq(tokens[c], 1, idx[c]), options[c])
       /\ pc[c] = "done" =>
            ret[c].content = ExpectedContent(tokens[c], options[c])

C4_Witness ==
  \E c \in Calls :
    /\ entry[c] = "convertToADF" /\ pc[c] = "done"
    /\ Len(tokens[c]) = 2
    /\ AwaitsIO(tokens[c][1], options[c])
    /\ tokens[c][1].type = "image"
    /\ tokens[c][1].href = "ok.png"
    /\ tokens[c][2].type = "heading"
    /\ Len(ret[c].content) = 2
    /\ ret[c].content[1].type = "mediaSingle"
    /\ ret[c].content[2].type = "heading"

\* the types of the nodes of a forest, at any depth
RECURSIVE NodeTypes(_)
NodeTypes(nodes) ==
  IF nodes = <<>> THEN {}
  ELSE {Head(nodes).type} \cup NodeTypes(ContentOf(Head(nodes)))
       \cup NodeTypes(Tail(nodes))

ParserReportsError(token, opts) ==
  /\ token.type = "code" /\ token.lang \in CsvLangs
  /\ Trim(token.text) # <<>>
  /\ LET o == csvOptionsOf(token.lang)
     IN  csvParse(token.text, o.hasHeader # "false",
                  IF o.delimiter = "undefined" THEN "," ELSE o.delimiter).kind = "error"

\* the two-row table of a parse error: an 'Error' header cell, a message cell
IsDiagnosticTable(node) ==
  /\ node.type = "table"
  /\ Len(node.content) = 2
  /\ \A r \in 1..2 : node.content[r].type = "tableRow" /\ Len(node.content[r].content) = 1
  /\ node.content[1].content[1].type = "tableHeader"
  /\ node.content[1].content[1].content = <<TextNode(<<"Error">>)>>
  /\ node.content[2].content[1].type = "tableCell"
  /\ Len(node.content[2].content[1].content) = 1
  /\ node.content[2].content[1].content[1].type = "text"
  /\ LET text == node.content[2].content[1].content[1].text
     IN  text # <<>> /\ text[Len(text)] = CsvErrorMessage

\* number of nodes the tokens before token i contribute
NodesBefore(c, i) == Len(ExpectedContent(SubSeq(tokens[c], 1, i - 1), options[c]))

\* C15: when the parser reports an error on a csv block, the builder does
\* not reject: the block's node is a table of exactly two rows, a single
\* tableHeader cell 'Error' and a single tableCell with the message, the
\* conversion does not fail with the parser's error and goes on to the end.
C15_ParserErrorGivesDiagnosticTable ==
  \A c \in Calls :
    (entry[c] = "convertToADF" /\ lexed[c]) =>
       /\ error[c] # CsvErrorMessage
       /\ \A i \in 1..idx[c] :
            (ParserReportsError(tokens[c][i], options[c]) /\ i \notin inflight[c]
               /\ pc[c] # "threw") =>
               /\ Len(content[c]) > NodesBefore(c, i)
               /\ IsDiagnosticTable(content[c][NodesBefore(c, i) + 1])
       /\ pc[c] = "done" =>
            /\ idx[c] = Len(tokens[c])
            /\ \A i \in DOMAIN tokens[c] :
                 ParserReportsError(tokens[c][i], options[c]) =>
                    IsDiagnosticTable(ret[c].content[NodesBefore(c, i) + 1])

\* a malformed csv block followed by a heading, both in the returned doc
C15_Witness ==
  \E c \in Calls :
    /\ entry[c] = "convertToADF" /\ pc[c] = "done"
    /\ Len(tokens[c]) = 2
    /\ ParserReportsError(tokens[c][1], options[c])
    /\ tokens[c][2].type = "heading"
    /\ Len(ret[c].content) = 2
    /\ IsDiagnosticTable(ret[c].content[1])
    /\ ret[c].content[2].type = "heading"

\* what getADFSchema's outer catch may have logged
LoadFailures == {"mkdir", "networkError", "notOk", "jsonError", "write"}

\* C5: concurrent first loads of the schema are serialized: as long as no
\* load has failed the schema is requested at most once, and when every call
\* has finished without a failed load the cache file holds one complete schema.
C5_SingleDownload ==
  (\A c \in Calls : schemaLog[c] \cap LoadFailures = {}) =>
     /\ Cardinality(fetched) <= 1
     /\ (\A c \in Calls : pc[c] = "done") => cacheFile \in SchemaDocs

(***************************************************************************)
(* The serializer as a state machine: calls of convertADFToStorage on one  *)
(* ConfluenceClient (createPage and updatePage each make one), every call  *)
(* on a tree of its own or on a tree serialized before.                    *)
(***************************************************************************)
MaxSerCalls == 3

\* trees of the later calls
LaterInputs ==
  {Doc(<<Paragraph(<<TextNode(<<"a">>)>>)>>),
   Doc(<<[type |-> "expand", content |-> <<TextNode(<<"<">>)>>]>>)}

SerInit ==
  /\ ConvInitWith({}, {"absent"})
  /\ adfInput \in SerInputs
  /\ serPc = "ready"
  /\ storage = <<>>
  /\ served = <<>>
  /\ serCalls = 1
  /\ CsvIdle
  /\ InlineIdle /\ PubIdle

ConvertADFToStorage ==
  /\ serPc = "ready"
  /\ serPc' = "returned"
  /\ storage' = convertADFToStorage(adfInput)
  /\ served' = Append(served, <<adfInput, storage'>>)
  /\ UNCHANGED <<adfInput, serCalls, convVars, csvVars, inlVars, pubVars>>

\* the client is asked to serialize again
NextPage ==
  /\ serPc = "returned"
  /\ serCalls < MaxSerCalls
  /\ serCalls' = serCalls + 1
  /\ adfInput' \in LaterInputs \cup {served[i][1] : i \in DOMAIN served}
  /\ serPc' = "ready"
  /\ UNCHANGED <<storage, served, convVars, csvVars, inlVars, pubVars>>

SerNext == ConvertADFToStorage \/ NextPage

SpecSer == SerInit /\ [][SerNext]_vars

(***************************************************************************)
(* The table builder as a state machine: one call of                       *)
(* Converter.parseCsvToTable or of CsvConverter.convert on a delimited     *)
(* text.                                                                   *)
(***************************************************************************)
MaxCols == 2
MaxRows == 2

HeaderNames == {"h1", "h2"}
CellValues == {"v1", "v2"}

\* the pieces of the fields with the separator between them
RECURSIVE JoinWith(_, _)
JoinWith(parts, sep) ==
  IF parts = <<>> THEN <<>>
  ELSE IF Len(parts) = 1 THEN parts[1]
  ELSE parts[1] \o <<sep>> \o JoinWith(Tail(parts), sep)

CsvLineOf(fields) == JoinWith([i \in DOMAIN fields |-> <<fields[i]>>], ",")

\* a header line of k names and n data lines of k values
RegularCsv(k, n) ==
  {JoinWith(<<CsvLineOf(h)>> \o [i \in 1..n |-> CsvLineOf(rows[i])], "\n") :
      h \in [1..k -> HeaderNames], rows \in [1..n -> [1..k -> CellValues]]}

OddCsv ==
  { <<>>,
    <<" ", "\n">>,
    <<"h1", "\n", "\"", "v1">>,
    <<"h1", ",", "h2", "\n", "v1", ",", "v", "\"", "2">>,
    <<" ", "h1", " ", ",", "h2", "\n", "v1", ",", " ", "v2">>,
    <<"h1", "\n", "\n", "v1">>,
    <<"\"", "h1", "\"", "\n", "v1">>,
    <<"h1", "\n", "v1", "\n">>,
    <<"h1", ",", "h2", "\n", "v1">>,
    <<"h1", ",", "h2", "\n", "v1", ",", "v2", "\n", "v1">>,
    <<"h1", "\n", "v1", ",", "v2">>,
    <<"h1", "|", "h2", "\n", "v1", "|", "v2">> }

CsvTexts == OddCsv \cup UNION {RegularCsv(k, n) : k \in 1..MaxCols, n \in 0..MaxRows}

CsvOptionSamples == {csvOptionsOf(l) : l \in CsvLangs}

CsvInit ==
  /\ ConvInitWith({}, {"absent"})
  /\ SerIdle
  /\ InlineIdle /\ PubIdle
  /\ csvInput \in
       {[builder |-> "Converter", text |-> t, options |-> o] :
           t \in CsvTexts, o \in CsvOptionSamples}
       \cup {[builder |-> "CsvConverter", text |-> t, options |-> NoCsvOptions] :
               t \in CsvTexts}
       \cup {[builder |-> "parseToTable", text |-> t, options |-> o] :
               t \in CsvTexts, o \in CsvOptionSamples}
  /\ csvPc = "ready"
  /\ csvOut = ResolvedNull

\* Converter.parseCsvToTable settles
ParseCsvToTable ==
  /\ csvPc = "ready"
  /\ csvInput.builder = "Converter"
  /\ csvOut' = parseCsvToTable(csvInput.text, csvInput.options)
  /\ csvPc' = "settled"
  /\ UNCHANGED <<csvInput, convVars, serVars, inlVars, pubVars>>

\* CsvConverter.convert settles
CsvConvert ==
  /\ csvPc = "ready"
  /\ csvInput.builder = "CsvConverter"
  /\ csvOut' = CsvConverterConvert(csvInput.text)
  /\ csvPc' = "settled"
  /\ UNCHANGED <<csvInput, convVars, serVars, inlVars, pubVars>>

\* parseToTable of the file import settles
ParseToTable ==
  /\ csvPc = "ready"
  /\ csvInput.builder = "parseToTable"
  /\ csvOut' = parseToTable(csvInput.text, csvInput.options)
  /\ csvPc' = "settled"
  /\ UNCHANGED <<csvInput, convVars, serVars, inlVars, pubVars>>

CsvNext == ParseCsvToTable \/ CsvConvert \/ ParseToTable

SpecCsv == CsvInit /\ [][CsvNext]_vars

(***************************************************************************)
(* Properties of the table builder, checked under SpecCsv, and of its use  *)
(* by the conversion, checked under Spec.                                  *)
(***************************************************************************)
\* the text of a cell, held by the cell or by the paragraph in it
CellText(cell) ==
  IF cell.content[1].type = "paragraph" THEN cell.content[1].content[1].text
  ELSE cell.content[1].text

\* the call is one of the builder of the converter
ConverterBuilder == csvInput.builder \in {"Converter", "CsvConverter"}

\* the fields of the non-empty lines as the default options cut them
DefaultLines == CsvLines(csvInput.text, ",")

LinesSound(lines) ==
  \A i \in DOMAIN lines : \A j \in DOMAIN lines[i] : FieldSound(lines[i][j])

\* header line of k >= 1 fields and n >= 1 data lines of k fields
RegularInput ==
  /\ Len(DefaultLines) >= 2
  /\ LinesSound(DefaultLines)
  /\ \A i \in DOMAIN DefaultLines : Len(DefaultLines[i]) = Len(DefaultLines[1])

DefaultCsvOptions ==
  csvInput.options.hasHeader = "undefined" /\ csvInput.options.delimiter = "undefined"

\* the table of a header line and its data lines, cell by cell
TableOfLines(table, header, data) ==
  /\ table.type = "table"
  /\ Len(table.content) = Len(data) + 1
  /\ \A r \in DOMAIN table.content : table.content[r].type = "tableRow"
  /\ Len(table.content[1].content) = Len(header)
  /\ \A j \in DOMAIN header :
       /\ table.content[1].content[j].type = "tableHeader"
       /\ CellText(table.content[1].content[j]) = header[j]
  /\ \A i \in DOMAIN data :
       /\ Len(table.content[i + 1].content) = Len(data[i])
       /\ \A j \in DOMAIN data[i] :
            /\ table.content[i + 1].content[j].type = "tableCell"
            /\ CellText(table.content[i + 1].content[j]) = data[i][j]

FieldValues(lines) ==
  [i \in DOMAIN lines |-> [j \in DOMAIN lines[i] |-> FieldValue(lines[i][j])]]

\* C16: with default options, a header line of k fields and n >= 1 data
\* lines of k fields give a table of n+1 rows: one row of k tableHeader
\* cells holding the header names, then n rows of k tableCell cells holding
\* the data lines in source order.
C16_HeaderRowThenDataRows ==
  (csvPc = "settled" /\ ConverterBuilder /\ DefaultCsvOptions /\ RegularInput) =>
     /\ csvOut.kind = "node"
     /\ TableOfLines(csvOut.node, FieldValues(DefaultLines)[1],
                     Tail(FieldValues(DefaultLines)))

\* the same for header names that differ from one another
DistinctHeadersGiveTable ==
  (csvPc = "settled" /\ ConverterBuilder /\ DefaultCsvOptions /\ RegularInput
     /\ \A i, j \in DOMAIN DefaultLines[1] :
          i # j => DefaultLines[1][i] # DefaultLines[1][j]) =>
     /\ csvOut.kind = "node"
     /\ TableOfLines(csvOut.node, FieldValues(DefaultLines)[1],
                     Tail(FieldValues(DefaultLines)))

\* either builder called on its own: a parser error settles the promise
\* with the two-row table
BuilderErrorGivesDiagnosticTable ==
  (csvPc = "settled" /\ ConverterBuilder /\ Trim(csvInput.text) # <<>>
     /\ ~LinesSound(CsvLines(csvInput.text,
                             IF csvInput.options.delimiter = "undefined" THEN ","
                             ELSE csvInput.options.delimiter))) =>
     /\ csvOut.kind = "node"
     /\ csvOut.node = CsvErrorTable(CsvErrorMessage)

\* C17: with hasHeader false (the no-header fence option) and a text that is
\* not empty or blank, the first row is a row of tableHeader cells holding
\* the positional indices 0, 1, ... and every input line follows as a row of
\* tableCell cells: m lines give m+1 rows and no line is taken as the header.
C17_NoHeaderKeepsEveryLine ==
  (csvPc = "settled" /\ csvInput.builder = "Converter"
     /\ csvInput.options.hasHeader = "false" /\ csvInput.options.delimiter = "undefined"
     /\ Trim(csvInput.text) # <<>> /\ LinesSound(DefaultLines)) =>
     /\ csvOut.kind = "node"
     /\ TableOfLines(csvOut.node,
                     [j \in DOMAIN DefaultLines[1] |-> <<ToString(j - 1)>>],
                     FieldValues(DefaultLines))

C17_Witness ==
  /\ csvPc = "settled" /\ csvInput.builder = "Converter"
  /\ csvInput.options.hasHeader = "false"
  /\ csvInput.text = <<"h1", ",", "h2", "\n", "v1", ",", "v2">>
  /\ Len(csvOut.node.content) = 3
  /\ CellText(csvOut.node.content[1].content[2]) = <<"1">>
  /\ CellText(csvOut.node.content[2].content[1]) = <<"h1">>
  /\ CellText(csvOut.node.content[3].content[2]) = <<"v2">>

(***************************************************************************)
(* Properties of the serializer, checked under SpecSer.                    *)
(***************************************************************************)
CodeMacroOpen == "<ac:structured-macro ac:name=\"code\">"
MarkdownMacroOpen == "<ac:structured-macro ac:name=\"markdown\">"
CdataOpen == "<ac:plain-text-body><![CDATA["
CdataClose == "]]></ac:plain-text-body></ac:structured-macro>"

\* the call has returned and the tree is a doc with exactly one child
SoleChildReturned ==
  /\ serPc = "returned"
  /\ Has(adfInput, "type") /\ adfInput.type = "doc"
  /\ Has(adfInput, "content") /\ Len(adfInput.content) = 1

SoleChild == adfInput.content[1]

CodeDocReturned == SoleChildReturned /\ SoleChild.type = "codeBlock"

CodeLanguage == AttrOf(SoleChild, "language", "")

CodeText == SoleChild.content[1].text

\* the pieces between the CDATA opener and the closing piece
CdataBody ==
  LET i == CHOOSE k \in DOMAIN storage : storage[k] = CdataOpen
  IN  SubSeq(storage, i + 1, Len(storage) - 1)

RECURSIVE QuotesAsEntities(_)
QuotesAsEntities(t) ==
  IF t = <<>> THEN <<>>
  ELSE (IF Head(t) = "\"" THEN <<"&", "q", "u", "o", "t", ";">> ELSE <<Head(t)>>)
       \o QuotesAsEntities(Tail(t))

\* C6: a codeBlock whose language is mermaid is not serialized as a code
\* macro; it is emitted as a markdown macro with a plain-text body.
C6_MermaidAsMarkdownMacro ==
  (CodeDocReturned /\ CodeLanguage = "mermaid") =>
     /\ CodeMacroOpen \notin Range(storage)
     /\ Len(storage) >= 2
     /\ storage[1] = MarkdownMacroOpen
     /\ storage[2] = CdataOpen

C8_CodeTextVerbatimInCdata ==
  (CodeDocReturned /\ Range(CodeText) \subseteq {"a", "\""}) =>
     (CdataOpen \in Range(storage) /\ CdataBody = CodeText)

\* ---- marks ----
WrappingMarks == {"strong", "em", "link"}

CloseTag(mark) ==
  CASE mark.type = "strong" -> "</strong>"
    [] mark.type = "em"     -> "</em>"
    [] mark.type = "link"   -> "</a>"

OpenHead(mark) ==
  CASE mark.type = "strong" -> "<strong>"
    [] mark.type = "em"     -> "<em>"
    [] mark.type = "link"   -> "<a href=\""

\* the call has returned for a doc holding one paragraph holding one text
\* node whose marks all map to a tag
MarkedParagraphReturned ==
  /\ SoleChildReturned
  /\ SoleChild.type = "paragraph"
  /\ Len(SoleChild.content) = 1
  /\ Has(SoleChild.content[1], "marks")
  /\ Len(SoleChild.content[1].marks) >= 1
  /\ \A i \in DOMAIN SoleChild.content[1].marks :
        SoleChild.content[1].marks[i].type \in WrappingMarks

TheMarks == SoleChild.content[1].marks

\* the closing tags, from the one next to the text to the one next to </p>
ClosingTags == SubSeq(storage, Len(storage) - Len(TheMarks), Len(storage) - 1)

\* C9 as stated: the first mark of the list is the outermost wrapper and the
\* last mark directly encloses the text.
C9_FirstMarkOutermost ==
  MarkedParagraphReturned =>
     /\ storage[2] = OpenHead(TheMarks[1])
     /\ ClosingTags[Len(TheMarks)] = CloseTag(TheMarks[1])
     /\ ClosingTags[1] = CloseTag(TheMarks[Len(TheMarks)])

\* C9 amended: the first mark of the list directly encloses the text and the
\* last mark is the outermost wrapper.
C9_FirstMarkInnermost ==
  MarkedParagraphReturned =>
     /\ storage[1] = "<p>" /\ storage[Len(storage)] = "</p>"
     /\ storage[2] = OpenHead(TheMarks[Len(TheMarks)])
     /\ \A i \in DOMAIN TheMarks : ClosingTags[i] = CloseTag(TheMarks[i])

C9_Witness ==
  /\ MarkedParagraphReturned
  /\ TheMarks = <<[type |-> "strong"], [type |-> "em"]>>
  /\ storage = <<"<p>", "<em>", "<strong>", "a", "&", "a", "m", "p", ";",
                 "</strong>", "</em>", "</p>">>

\* C10: an extension of an unknown namespace yields no macro wrapper but its
\* children are rendered in order; an extension of the macro namespace is a
\* structured macro named by the extension's key.
C10_UnknownNamespaceRendersChildren ==
  (SoleChildReturned /\ SoleChild.type = "extension") =>
     IF AttrOf(SoleChild, "extensionType", "") = MacroCore
     THEN AttrOf(SoleChild, "extensionKey", "") # "" =>
            /\ Len(storage) >= 3
            /\ SubSeq(storage, 1, 3) =
                 <<"<ac:structured-macro ac:name=\"",
                   AttrOf(SoleChild, "extensionKey", ""), "\">">>
     ELSE storage = processADFNodes(ContentOf(SoleChild))

\* ---- text leaves ----
EntityOf(ch) ==
  CASE ch = "&"  -> EntAmp
    [] ch = "<"  -> EntLt
    [] ch = ">"  -> EntGt
    [] ch = "\"" -> EntQuot
    [] ch = "'"  -> EntApos
    [] OTHER     -> <<ch>>

\* each character of the text replaced by its entity, once
RECURSIVE EscapedOnce(_)
EscapedOnce(t) ==
  IF t = <<>> THEN <<>> ELSE EntityOf(Head(t)) \o EscapedOnce(Tail(t))

\* the text leaves of a forest in document order, each escaped once
RECURSIVE EscapedLeaves(_)
EscapedLeaves(nodes) ==
  IF nodes = <<>> THEN <<>>
  ELSE LET n == Head(nodes)
       IN  (IF n.type = "text"
            THEN EscapedOnce(IF Has(n, "text") THEN n.text ELSE <<>>)
            ELSE EscapedLeaves(ContentOf(n)))
           \o EscapedLeaves(Tail(nodes))

TextChars ==
  Chars \cup Range(EntAmp) \cup Range(EntLt) \cup Range(EntGt) \cup Range(EntQuot)
  \cup Range(EntApos)

\* pieces that open an attribute value
AttrOpeners == {"<a href=\"", "<span style=\"color:"}

\* pieces that open a tag which a later ">" piece closes
TagHeads == {"<td", "<th", "<h", "</h"}

\* the character pieces of the markup outside tags and attribute values
RECURSIVE TextContentFrom(_, _, _)
TextContentFrom(s, i, inTag) ==
  IF i > Len(s) THEN <<>>
  ELSE IF inTag THEN TextContentFrom(s, i + 1, s[i] # ">")
  ELSE IF s[i] \in TagHeads THEN TextContentFrom(s, i + 1, TRUE)
  ELSE (IF s[i] \in TextChars /\ (i = 1 \/ s[i - 1] \notin AttrOpeners)
        THEN <<s[i]>> ELSE <<>>) \o TextContentFrom(s, i + 1, FALSE)

TextContent(s) == TextContentFrom(s, 1, FALSE)

DocReturned ==
  /\ serPc = "returned"
  /\ Has(adfInput, "type") /\ adfInput.type = "doc" /\ Has(adfInput, "content")

\* whether the forest holds an extension node outside the macro namespace
RECURSIVE HasForeignExtension(_)
HasForeignExtension(nodes) ==
  IF nodes = <<>> THEN FALSE
  ELSE LET n == Head(nodes)
       IN  \/ (n.type = "extension" /\ AttrOf(n, "extensionType", "") # MacroCore)
           \/ HasForeignExtension(ContentOf(n))
           \/ HasForeignExtension(Tail(nodes))

\* in a tree without such an extension every leaf is there, escaped once
EscapedOnceWhereRendered ==
  (DocReturned /\ ~HasForeignExtension(adfInput.content)) =>
     TextContent(storage) = EscapedLeaves(adfInput.content)

\* C11: every text leaf of the tree appears in the returned markup, in
\* document order, with each of & < > " ' replaced by its entity exactly
\* once, whatever container or macro the leaf is nested in.
C11_EveryLeafEscapedOnce ==
  DocReturned => TextContent(storage) = EscapedLeaves(adfInput.content)

\* ---- nodes without a case ----
MappedTypes ==
  {"paragraph", "text", "heading", "bulletList", "orderedList", "listItem",
   "codeBlock", "blockquote", "panel", "mediaSingle", "media", "table",
   "tableRow", "tableCell", "tableHeader", "hardBreak", "rule", "taskList",
   "taskItem", "extension"}

RECURSIVE HasUnmapped(_)
HasUnmapped(nodes) ==
  IF nodes = <<>> THEN FALSE
  ELSE \/ Head(nodes).type \notin MappedTypes
       \/ HasUnmapped(ContentOf(Head(nodes)))
       \/ HasUnmapped(Tail(nodes))

\* the forest with every node of an unmapped type replaced, at any depth, by
\* its children
RECURSIVE Flattened(_)
Flattened(nodes) ==
  IF nodes = <<>> THEN <<>>
  ELSE LET n == Head(nodes)
       IN  (IF n.type \notin MappedTypes THEN Flattened(ContentOf(n))
            ELSE IF Has(n, "content")
                 THEN <<[n EXCEPT !.content = Flattened(n.content)]>>
                 ELSE <<n>>)
           \o Flattened(Tail(nodes))

\* C12: a node of a type the serializer has no case for, at any depth,
\* contributes exactly the serialization of its children in order: the
\* markup is that of the tree with each such node replaced by its children.
C12_UnmappedNodeIsItsChildren ==
  (DocReturned /\ HasUnmapped(adfInput.content)) =>
     storage = convertADFToStorage(Doc(Flattened(adfInput.content)))

\* an unmapped node two levels above a blockquote whose paragraph holds two
\* leaves, all of them rendered
C12_Witness ==
  /\ DocReturned
  /\ Len(adfInput.content) = 1
  /\ adfInput.content[1].type = "layoutSection"
  /\ Len(storage) > 5
  /\ storage[1] = "<blockquote>"
  /\ TextContent(storage) = <<"a", "&", "l", "t", ";">>

ListCalls ==
  {c \in Calls : /\ entry[c] = "convertToADF" /\ lexed[c] /\ pc[c] = "done"
                 /\ Len(tokens[c]) = 1 /\ tokens[c][1].type = "list"}

EveryItemIsTask(token) == \A i \in DOMAIN token.items : token.items[i].task

\* C18: a list whose items all carry a checkbox, bulleted or numbered,
\* becomes one taskList holding one taskItem per item, in source order, with
\* state DONE for a checked box and TODO for an unchecked one.
C18_AllCheckboxListIsTaskList ==
  \A c \in ListCalls :
    EveryItemIsTask(tokens[c][1]) =>
      /\ Len(ret[c].content) = 1
      /\ ret[c].content[1].type = "taskList"
      /\ Len(ret[c].content[1].content) = Len(tokens[c][1].items)
      /\ \A i \in DOMAIN tokens[c][1].items :
           /\ ret[c].content[1].content[i].type = "taskItem"
           /\ ret[c].content[1].content[i].attrs.state =
                (IF tokens[c][1].items[i].checked THEN "DONE" ELSE "TODO")
           /\ ret[c].content[1].content[i].content =
                processTaskItemContent(tokens[c][1].items[i].text, options[c])

C18_Witness ==
  \E c \in ListCalls :
    /\ tokens[c][1].ordered
    /\ Len(tokens[c][1].items) = 2
    /\ tokens[c][1].items[1].task /\ ~tokens[c][1].items[1].checked
    /\ tokens[c][1].items[2].task /\ tokens[c][1].items[2].checked
    /\ ret[c].content[1].type = "taskList"
    /\ ret[c].content[1].content[1].attrs.state = "TODO"
    /\ ret[c].content[1].content[2].attrs.state = "DONE"

\* ---- checkbox lines inside a list item ----
\* the lines of an item's text
ItemLines(text) == SplitAt(text, "\n")

\* the position of the "[" of a line that is a checkbox line, 0 otherwise
CheckboxOf(line) ==
  IF BoxPos(line, MarkerEnd("bulleted", line, SkipWs(line, 1))) # 0
  THEN BoxPos(line, MarkerEnd("bulleted", line, SkipWs(line, 1)))
  ELSE BoxPos(line, MarkerEnd("numbered", line, SkipWs(line, 1)))

IsNumberedLine(line) ==
  BoxPos(line, MarkerEnd("numbered", line, SkipWs(line, 1))) # 0

\* a checkbox line with a label after the box
LabelledCheckbox(line) ==
  /\ CheckboxOf(line) # 0
  /\ SkipWs(line, CheckboxOf(line) + 3) <= Len(line)

\* the text is an initial line followed by labelled checkbox lines only
InitialThenCheckboxes(text) ==
  /\ Len(ItemLines(text)) >= 2
  /\ CheckboxOf(ItemLines(text)[1]) = 0
  /\ \A k \in 2..Len(ItemLines(text)) : LabelledCheckbox(ItemLines(text)[k])

\* what the item is to become: the paragraph of the initial segment, then one
\* task list with the state of each checkbox line
NestedAsStated(node, text, opts) ==
  /\ node.type = "listItem"
  /\ Len(node.content) = 2
  /\ node.content[1] = Paragraph(parseInlineContent(Trim(ItemLines(text)[1]), opts))
  /\ node.content[2].type = "taskList"
  /\ Len(node.content[2].content) = Len(ItemLines(text)) - 1
  /\ \A k \in 2..Len(ItemLines(text)) :
       /\ node.content[2].content[k - 1].type = "taskItem"
       /\ node.content[2].content[k - 1].attrs.state =
            (IF ItemLines(text)[k][CheckboxOf(ItemLines(text)[k]) + 1] \in {"x", "X"}
             THEN "DONE" ELSE "TODO")

\* the calls that returned the document of a list of one item without a box
PlainItemCalls ==
  {c \in ListCalls : /\ Len(tokens[c][1].items) = 1
                     /\ ~tokens[c][1].items[1].task
                     /\ Len(ret[c].content) = 1
                     /\ Len(ret[c].content[1].content) = 1}

\* C19: a list item without a box of its own whose text is an initial segment
\* followed by checkbox lines, bulleted or numbered or both, becomes a
\* listItem holding the paragraph of the initial segment and one taskList
\* with one taskItem per checkbox line, in order, with that line's state.
C19_NestedCheckboxLinesBecomeTaskList ==
  \A c \in PlainItemCalls :
    InitialThenCheckboxes(tokens[c][1].items[1].text) =>
      NestedAsStated(ret[c].content[1].content[1], tokens[c][1].items[1].text,
                     options[c])

\* no numbered checkbox line stands before a bulleted one
NoNumberedBeforeBulleted(text) ==
  \A j, k \in 2..Len(ItemLines(text)) :
     (j < k /\ IsNumberedLine(ItemLines(text)[j])) => IsNumberedLine(ItemLines(text)[k])

\* the same for the texts in which no numbered checkbox line precedes a
\* bulleted one
NestedCheckboxLinesOfOneRun ==
  \A c \in PlainItemCalls :
    (/\ InitialThenCheckboxes(tokens[c][1].items[1].text)
     /\ NoNumberedBeforeBulleted(tokens[c][1].items[1].text)) =>
      NestedAsStated(ret[c].content[1].content[1], tokens[c][1].items[1].text,
                     options[c])

\* ---- image upload ----
\* an image token that is handed to the asset store
IsUploaded(token, opts) ==
  token.type = "image" /\ token.href \notin CsvPaths /\ UploadRequested(opts)

\* the media node of a mediaSingle
MediaOf(node) == node.content[1]

StoredAssetMedia(node, token) ==
  /\ node.type = "mediaSingle" /\ Len(node.content) = 1
  /\ MediaOf(node).type = "media"
  /\ MediaOf(node).attrs.type = "file"
  /\ MediaOf(node).attrs.id = UploadId(token.href)

ExternalUrlMedia(node, token) ==
  /\ node.type = "mediaSingle" /\ Len(node.content) = 1
  /\ MediaOf(node).type = "media"
  /\ MediaOf(node).attrs.type = "external"
  /\ MediaOf(node).attrs.url = token.href

ImageNodeAsStated(node, token) ==
  IF token.href \in UploadableImages THEN StoredAssetMedia(node, token)
  ELSE ExternalUrlMedia(node, token)

\* C20: with upload requested and a client and a space key given, an image
\* the asset store takes becomes a mediaSingle whose media is of type file with
\* the id of the upload response; an image whose upload fails becomes a
\* mediaSingle whose media is an external reference to the image's location,
\* the failure does not end the conversion, and the tokens after it are
\* converted.
C20_UploadFailureFallsBackToUrl ==
  \A c \in Calls :
    (entry[c] = "convertToADF" /\ lexed[c]) =>
       /\ error[c] # UploadFailedMessage
       /\ \A i \in 1..idx[c] :
            (IsUploaded(tokens[c][i], options[c]) /\ i \notin inflight[c]
               /\ pc[c] # "threw") =>
               /\ Len(content[c]) > NodesBefore(c, i)
               /\ ImageNodeAsStated(content[c][NodesBefore(c, i) + 1], tokens[c][i])
       /\ pc[c] = "done" =>
            /\ idx[c] = Len(tokens[c])
            /\ \A i \in DOMAIN tokens[c] :
                 IsUploaded(tokens[c][i], options[c]) =>
                    ImageNodeAsStated(ret[c].content[NodesBefore(c, i) + 1], tokens[c][i])

\* a refused image, then a stored one, both in the returned document
C20_Witness ==
  \E c \in Calls :
    /\ entry[c] = "convertToADF" /\ pc[c] = "done"
    /\ UploadRequested(options[c])
    /\ Len(tokens[c]) = 2
    /\ tokens[c][1].type = "image" /\ tokens[c][1].href = "bad.png"
    /\ tokens[c][2].type = "image" /\ tokens[c][2].href = "ok.png"
    /\ Len(ret[c].content) = 2
    /\ MediaOf(ret[c].content[1]).attrs.type = "external"
    /\ MediaOf(ret[c].content[1]).attrs.url = "bad.png"
    /\ MediaOf(ret[c].content[2]).attrs.type = "file"
    /\ MediaOf(ret[c].content[2]).attrs.id = UploadId("ok.png")

\* ---- lists with and without checkboxes ----
SomeItemIsTask(token) == \E i \in DOMAIN token.items : token.items[i].task

\* C27: when at least one item of a list carries a checkbox, the list becomes
\* a single taskList in which every item, the ones without a checkbox
\* included, is a taskItem (state TODO without a checkbox); no listItem,
\* bulletList or orderedList is emitted for that list.
C27_OneCheckboxMakesWholeListTasks ==
  \A c \in ListCalls :
    SomeItemIsTask(tokens[c][1]) =>
      /\ Len(ret[c].content) = 1
      /\ ret[c].content[1].type = "taskList"
      /\ Len(ret[c].content[1].content) = Len(tokens[c][1].items)
      /\ \A i \in DOMAIN tokens[c][1].items :
           /\ ret[c].content[1].content[i].type = "taskItem"
           /\ ~tokens[c][1].items[i].task =>
                ret[c].content[1].content[i].attrs.state = "TODO"
      /\ NodeTypes(ret[c].content) \cap {"listItem", "bulletList", "orderedList"} = {}

\* a checkbox item followed by an item without a checkbox
C27_Witness ==
  \E c \in ListCalls :
    /\ Len(tokens[c][1].items) = 2
    /\ tokens[c][1].items[1].task /\ tokens[c][1].items[1].checked
    /\ ~tokens[c][1].items[2].task
    /\ ret[c].content[1].type = "taskList"
    /\ ret[c].content[1].content[1].attrs.state = "DONE"
    /\ ret[c].content[1].content[2].attrs.state = "TODO"

(***************************************************************************)
(* The inline resolver called on its own: parseInlineContent on one span.  *)
(***************************************************************************)
MaxParts == 2

\* stretches without white space: plain, mention-like, url, status-like,
\* panel-like, image
SpanWords ==
  { <<"a">>,
    <<"@", "bob">>, <<"@", "bob", "!">>,
    <<"https://", "x">>,
    <<"[", "x", "]">>, <<"[", "x">>,
    <<"{panel:", "title=", "T", "}", "b", "{panel}">>,
    <<"{panel:", "title=", "T", "}", "{panel}">>,
    <<"{panel:", "x">>,
    <<"!", "[", "a", "]", "(", "x", ")">> }

SpanSeparators == {<<" ">>, <<"\n", " ">>}

SpanPaddings == {<<>>, <<" ">>}

\* n stretches with white space between them
RECURSIVE WordsJoined(_)
WordsJoined(n) ==
  IF n = 0 THEN {<<>>}
  ELSE IF n = 1 THEN SpanWords
  ELSE {w \o sep \o rest : w \in SpanWords, sep \in SpanSeparators,
                            rest \in WordsJoined(n - 1)}

SpanSamples ==
  {p \o t \o q : p \in SpanPaddings, q \in SpanPaddings,
                 t \in UNION {WordsJoined(n) : n \in 0..MaxParts}}

InlineOptionSamples ==
  {[parseMentions |-> m, parseInlineCards |-> k] : m \in BOOLEAN, k \in BOOLEAN}
  \cup {DefaultOptions}

InlineInit ==
  /\ ConvInitWith({}, {"absent"})
  /\ SerIdle
  /\ CsvIdle
  /\ spanInput \in {[text |-> t, options |-> o] : t \in SpanSamples,
                                                  o \in InlineOptionSamples}
  /\ spanPc = "ready"
  /\ spanOut = <<>>
  /\ PubIdle

ParseInlineContent ==
  /\ spanPc = "ready"
  /\ spanOut' = parseInlineContent(spanInput.text, spanInput.options)
  /\ spanPc' = "returned"
  /\ UNCHANGED <<spanInput, convVars, serVars, csvVars, pubVars>>

InlineNext == ParseInlineContent

SpecInline == InlineInit /\ [][InlineNext]_vars

\* the span has neither checkbox syntax nor image syntax: the resolver goes
\* straight to the splitting on white space
PlainSpan(text) ==
  /\ \A i \in DOMAIN text : ~TaskSyntaxAt(text, i)
  /\ \A i \in DOMAIN text : ~ImageSyntaxFrom(text, i)

\* the stretches of the span that hold something other than white space
SpanTokens(text) ==
  SelectSeq(SplitOnWhitespace(text), LAMBDA part : Trim(part) # <<>>)

NodesOfTokens(nodes) ==
  SelectSeq(nodes, LAMBDA n : ~(n.type = "text" /\ Trim(n.text) = <<>>))

\* the node the stated order gives a token: mention, inline card, status,
\* panel, the first that matches, a disabled feature skipped; else plain text
NodeByPriority(part, opts) ==
  IF Feature(opts, "parseMentions") /\ MentionMatches(part) THEN "mention"
  ELSE IF Feature(opts, "parseInlineCards") /\ UrlMatches(part) THEN "inlineCard"
  ELSE IF StatusMatches(part) THEN "status"
  ELSE IF PanelMatches(part) THEN "panel"
  ELSE "text"

\* C21: every token of the span that is not white space gives one node, the
\* one of the first recognizer that matches in the order mention, inline card,
\* status, panel, a disabled feature being skipped; a token that matches none
\* gives one plain text node holding the token.
C21_FirstRecognizerWins ==
  (spanPc = "returned" /\ PlainSpan(spanInput.text)) =>
     /\ Len(NodesOfTokens(spanOut)) = Len(SpanTokens(spanInput.text))
     /\ \A i \in DOMAIN SpanTokens(spanInput.text) :
          /\ NodesOfTokens(spanOut)[i].type =
               NodeByPriority(SpanTokens(spanInput.text)[i], spanInput.options)
          /\ NodesOfTokens(spanOut)[i].type = "text" =>
               NodesOfTokens(spanOut)[i] = TextNode(SpanTokens(spanInput.text)[i])

\* a mention-like token with mentions off next to a status token
C21_Witness ==
  /\ spanPc = "returned"
  /\ PlainSpan(spanInput.text)
  /\ ~Feature(spanInput.options, "parseMentions")
  /\ Feature(spanInput.options, "parseInlineCards")
  /\ SpanTokens(spanInput.text) = <<(<<"@", "bob">>), (<<"https://", "x">>)>>
  /\ NodesOfTokens(spanOut)[1] = TextNode(<<"@", "bob">>)
  /\ NodesOfTokens(spanOut)[2].type = "inlineCard"

\* the text nodes of a forest, at any depth
RECURSIVE TextNodesOf(_)
TextNodesOf(nodes) ==
  IF nodes = <<>> THEN {}
  ELSE (IF Head(nodes).type = "text" THEN {Head(nodes)} ELSE {})
       \cup TextNodesOf(ContentOf(Head(nodes))) \cup TextNodesOf(Tail(nodes))

\* C29: every text node the inline resolver returns has a text that is not
\* empty, whatever the span, the empty span and spans that begin or end with
\* white space included.
C29_NoEmptyTextNode ==
  spanPc = "returned" => \A n \in TextNodesOf(spanOut) : n.text # <<>>

\* ---- block tokens ----
\* the node types a token of each block kind may become
NodeTypesOfKind ==
  [heading |-> {"heading"},
   paragraph |-> {"paragraph", "expand", "table"},
   list |-> {"taskList", "bulletList", "orderedList"},
   table |-> {"table"},
   code |-> {"codeBlock", "table"},
   blockquote |-> {"blockquote"}]

\* the tokens of a call that come before token i and are of a block kind
BlocksBefore(c, i) == {j \in 1..(i - 1) : tokens[c][j].type \in DOMAIN NodeTypesOfKind}

\* C23: every top-level token that is a heading, a paragraph, a list, a
\* table, a code block or a block quote has its block node in the returned
\* doc; in particular a block-quote token gives a blockquote node.
C23_EveryBlockTokenHasItsNode ==
  \A c \in Calls :
    (entry[c] = "convertToADF" /\ lexed[c] /\ pc[c] = "done"
       /\ \A i \in DOMAIN tokens[c] :
            tokens[c][i].type \in DOMAIN NodeTypesOfKind \cup {"space"}) =>
       \A i \in DOMAIN tokens[c] :
          tokens[c][i].type \in DOMAIN NodeTypesOfKind =>
             /\ Len(ret[c].content) > Cardinality(BlocksBefore(c, i))
             /\ ret[c].content[Cardinality(BlocksBefore(c, i)) + 1].type
                  \in NodeTypesOfKind[tokens[c][i].type]

\* the same for the kinds that have a case in the switch
BlockTokensWithACaseHaveTheirNode ==
  \A c \in Calls :
    (entry[c] = "convertToADF" /\ lexed[c] /\ pc[c] = "done"
       /\ \A i \in DOMAIN tokens[c] :
            tokens[c][i].type \in (DOMAIN NodeTypesOfKind \cup {"space"}) \ {"blockquote"}) =>
       \A i \in DOMAIN tokens[c] :
          tokens[c][i].type \in DOMAIN NodeTypesOfKind =>
             /\ Len(ret[c].content) > Cardinality(BlocksBefore(c, i))
             /\ ret[c].content[Cardinality(BlocksBefore(c, i)) + 1].type
                  \in NodeTypesOfKind[tokens[c][i].type]

\* ---- the file-import builder ----
\* C24: the file-import builder, with a header, gives one header row and
\* then one data row per data record, in order: a header line of k distinct
\* names and n >= 1 data lines of k fields give n+1 rows of k cells.
C24_FileImportHeaderThenDataRows ==
  (csvPc = "settled" /\ csvInput.builder = "parseToTable" /\ DefaultCsvOptions
     /\ RegularInput
     /\ \A i, j \in DOMAIN DefaultLines[1] :
          i # j => DefaultLines[1][i] # DefaultLines[1][j]) =>
     /\ csvOut.kind = "node"
     /\ TableOfLines(csvOut.node, FieldValues(DefaultLines)[1],
                     Tail(FieldValues(DefaultLines)))

\* without a header the file-import builder gives one row per line
FileImportNoHeaderKeepsEveryLine ==
  (csvPc = "settled" /\ csvInput.builder = "parseToTable"
     /\ csvInput.options.hasHeader = "false" /\ csvInput.options.delimiter = "undefined"
     /\ csvOut.kind = "node") =>
     /\ Len(csvOut.node.content) = Len(DefaultLines)
     /\ \A i \in DOMAIN DefaultLines :
          /\ Len(csvOut.node.content[i].content) = Len(DefaultLines[i])
          /\ \A j \in DOMAIN DefaultLines[i] :
               CellText(csvOut.node.content[i].content[j]) = FieldValue(DefaultLines[i][j])

\* ---- the header row under column-count mismatches ----
\* a text of sound lines, a header record whose names differ from one
\* another and at least one data line
HeaderRecordInput ==
  /\ Trim(csvInput.text) # <<>>
  /\ Len(DefaultLines) >= 2
  /\ LinesSound(DefaultLines)
  /\ \A i, j \in DOMAIN DefaultLines[1] :
       i # j => DefaultLines[1][i] # DefaultLines[1][j]

HeaderRowOf(table, header) ==
  /\ table.type = "table"
  /\ Len(table.content) >= 1
  /\ Len(table.content[1].content) = Len(header)
  /\ \A j \in DOMAIN header :
       /\ table.content[1].content[j].type = "tableHeader"
       /\ CellText(table.content[1].content[j]) = header[j]

\* C25: for a non-empty input with a header record the table starts with a
\* header row of one tableHeader cell per field of the header record, in
\* order, whatever the number of fields of the data rows and whatever the
\* number of data rows.
C25_HeaderRowKeepsEveryField ==
  (csvPc = "settled" /\ ConverterBuilder /\ DefaultCsvOptions /\ HeaderRecordInput) =>
     /\ csvOut.kind = "node"
     /\ HeaderRowOf(csvOut.node, FieldValues(DefaultLines)[1])

\* the same when the first data line has at least as many fields as the
\* header record
HeaderRowKeptWhenFirstDataLineIsFull ==
  (csvPc = "settled" /\ ConverterBuilder /\ DefaultCsvOptions /\ HeaderRecordInput
     /\ Len(DefaultLines[2]) >= Len(DefaultLines[1])) =>
     /\ csvOut.kind = "node"
     /\ HeaderRowOf(csvOut.node, FieldValues(DefaultLines)[1])

\* ---- the schema loader ----
\* getADFSchema has returned null to the call: its outer catch ran
ReturnedNoSchema(c) ==
  /\ pc[c] \in {"compile", "done"}
  /\ schemaLog[c] \cap LoadFailures # {}
  /\ schema[c] = "null"

\* C30: when the schema loader has returned null to the only call made, the
\* in-memory schema is unset: a call that sets the in-memory schema returns
\* it, and a failed call leaves it unset for the next call to retry.
C30_NullOnlyWhenSchemaUnset ==
  \A c \in Calls : ReturnedNoSchema(c) => adfSchema = "null"

\* the same for the failures that happen before the download has been parsed
FailureBeforeParseLeavesSchemaUnset ==
  \A c \in Calls :
    (ReturnedNoSchema(c) /\ "write" \notin schemaLog[c]) => adfSchema = "null"

(***************************************************************************)
(* ConfluenceClient.createOrUpdatePage.  The server holds a list of pages,  *)
(* in the order its search returns them.  A page has the ids of its         *)
(* ancestors (the last one is its parent), its parentId, whether the cloud  *)
(* search result carries that parentId, and its version number (0 when the  *)
(* response carries none).  Every awaited exchange is one step; its outcome *)
(* is the server's choice.                                                  *)
(***************************************************************************)
Page(id, title, ancestors, listed, version) ==
  [id |-> id, title |-> title, ancestors |-> ancestors,
   parentId |-> IF Len(ancestors) = 0 THEN "" ELSE ancestors[Len(ancestors)],
   listed |-> listed, version |-> version]

NoBody == [representation |-> "none", value |-> <<>>]

Request(method, resource, id, version, reqBody, parentId) ==
  [method |-> method, resource |-> resource, id |-> id, version |-> version,
   body |-> reqBody, parentId |-> parentId]

Get(resource, id) == Request("GET", resource, id, 0, NoBody, "")

Settled(kind, message, id) == [kind |-> kind, message |-> message, id |-> id]

SpaceNotFound == "Space not found"
RequestFailed == "API request failed"
TitleExists == "title already exists"
CannotCreate == "Cannot create page: a page with this title already exists"

\* ---- the pages on the server ----
PageUnderP1 == Page("10", "T", <<"P0", "P1">>, TRUE, 3)
PageUnderP2 == Page("20", "T", <<"P0", "P2">>, TRUE, 1)
PageBelowP1 == Page("30", "T", <<"P1", "P3">>, TRUE, 2)
PageUnlisted == Page("50", "T", <<"P0", "P1">>, FALSE, 0)
OtherPage == Page("40", "Other", <<"P0">>, TRUE, 5)

PageLists ==
  {<<>>, <<PageUnderP1>>, <<PageUnderP2>>, <<PageUnderP2, PageUnderP1>>,
   <<PageBelowP1>>, <<PageUnderP2, PageUnlisted>>, <<OtherPage>>,
   <<OtherPage, PageUnderP2>>, <<PageUnlisted>>}

PubContents ==
  {Doc(<<Paragraph(<<TextNode(<<"a">>)>>)>>),
   [type |-> "paragraph", content |-> <<TextNode(<<"a">>)>>],
   [type |-> "doc", version |-> 1]}

PubInputs ==
  {[instanceType |-> i, title |-> "T", parentId |-> p, pageId |-> g,
    content |-> c, labels |-> l, pages |-> s] :
      i \in {"server", "cloud"}, p \in {"", "P1", "P2"}, g \in {"", "40", "99"},
      c \in PubContents, l \in BOOLEAN, s \in PageLists}

\* ---- what the server answers ----
PageById(pages, id) ==
  IF \E i \in DOMAIN pages : pages[i].id = id
  THEN pages[CHOOSE i \in DOMAIN pages : pages[i].id = id]
  ELSE NoPage

\* a page as one entry of the search results
Listing(page, instanceType) ==
  IF instanceType = "cloud" /\ ~page.listed THEN [page EXCEPT !.parentId = ""]
  ELSE page

TitleMatches(pages, title) == SelectSeq(pages, LAMBDA page : page.title = title)

SearchResults(pages, title, instanceType) ==
  [i \in DOMAIN TitleMatches(pages, title) |->
     Listing(TitleMatches(pages, title)[i], instanceType)]

\* ---- _doesPageMatchParent ----
doesPageMatchParent(page, parentId, instanceType) ==
  IF instanceType = "server"
  THEN \E i \in DOMAIN page.ancestors : page.ancestors[i] = parentId
  ELSE page.parentId = parentId

FirstIndex(results, Matches(_)) ==
  IF \E i \in DOMAIN results : Matches(results[i])
  THEN CHOOSE i \in DOMAIN results :
         /\ Matches(results[i])
         /\ \A j \in 1..(i - 1) : ~Matches(results[j])
  ELSE 0

\* ---- _getPageByTitleServer, after the search has answered ----
getPageByTitleServer(results, parentId) ==
  LET withParent ==
        FirstIndex(results, LAMBDA page : doesPageMatchParent(page, parentId, "server"))
  IN IF Len(results) = 0 THEN NoPage
     ELSE IF parentId = "" THEN results[1]
     ELSE IF withParent # 0 THEN results[withParent]
     ELSE results[1]

\* ---- _getPageByTitleCloud, after the search has answered; down = the ids
\*      of the pages whose details cannot be fetched ----
DetailMatches(pages, down, parentId, page) ==
  /\ page.id \notin down
  /\ doesPageMatchParent(PageById(pages, page.id), parentId, "cloud")

NeedsDetails(results, parentId) ==
  /\ Len(results) > 0
  /\ parentId # ""
  /\ FirstIndex(results, LAMBDA page : doesPageMatchParent(page, parentId, "cloud")) = 0

getPageByTitleCloud(pages, results, parentId, down) ==
  LET withParent ==
        FirstIndex(results, LAMBDA page : doesPageMatchParent(page, parentId, "cloud"))
      afterFetch ==
        FirstIndex(results, LAMBDA page : DetailMatches(pages, down, parentId, page))
  IN IF Len(results) = 0 THEN NoPage
     ELSE IF parentId = "" THEN results[1]
     ELSE IF withParent # 0 THEN results[withParent]
     ELSE IF afterFetch # 0 THEN PageById(pages, results[afterFetch].id)
     ELSE results[1]

\* the getPage requests of the loop over the results
DetailRequests(pages, results, parentId, down) ==
  LET afterFetch ==
        FirstIndex(results, LAMBDA page : DetailMatches(pages, down, parentId, page))
      last == IF afterFetch # 0 THEN afterFetch ELSE Len(results)
  IN IF NeedsDetails(results, parentId)
     THEN [i \in 1..last |-> Get("page", results[i].id)]
     ELSE <<>>

\* ---- getPageByTitle: the requests it sends and what it settles to ----
getPageByTitle(inp, parentId, space, searchOk, down) ==
  LET results == SearchResults(inp.pages, inp.title, inp.instanceType)
  IN IF inp.instanceType = "server"
     THEN IF searchOk
          THEN [threw |-> "", page |-> getPageByTitleServer(results, parentId),
                sent |-> <<Get("search", "")>>]
          ELSE [threw |-> RequestFailed, page |-> NoPage,
                sent |-> <<Get("search", "")>>]
     ELSE IF space # "ok"
          THEN [threw |-> IF space = "none" THEN SpaceNotFound ELSE RequestFailed,
                page |-> NoPage, sent |-> <<Get("space", "")>>]
     ELSE IF ~searchOk
          THEN [threw |-> RequestFailed, page |-> NoPage,
                sent |-> <<Get("space", ""), Get("search", "")>>]
     ELSE [threw |-> "",
           page |-> getPageByTitleCloud(inp.pages, results, parentId, down),
           sent |-> <<Get("space", ""), Get("search", "")>>
                    \o DetailRequests(inp.pages, results, parentId, down)]

SpaceAnswers == {"ok", "none", "failed"}

ResultIds(inp) ==
  {page.id : page \in Range(SearchResults(inp.pages, inp.title, inp.instanceType))}

\* ---- the bodies of the page writes ----
StorageBody(adfTree) ==
  [representation |-> "storage", value |-> convertADFToStorage(adfTree)]

AtlasBody(adfTree) == [representation |-> "atlas_doc_format", value |-> adfTree]

createPageServerRequest(inp) ==
  Request("POST", "page", "", 0, StorageBody(inp.content), inp.parentId)

createPageCloudRequest(inp) ==
  Request("POST", "page", "", 0, AtlasBody(inp.content), inp.parentId)

updatePageServerRequest(inp, pageId, version) ==
  Request("PUT", "page", pageId, version, StorageBody(inp.content), "")

updatePageCloudRequest(inp, pageId, version) ==
  Request("PUT", "page", pageId, version, AtlasBody(inp.content), "")

\* existingPage.version?.number || 1
currentVersion(page) == IF page.version = 0 THEN 1 ELSE page.version

\* an update that sends the version it found
updateVersionUnchanged(page) == currentVersion(page)

updateVersion(page) == currentVersion(page) + 1

\* ---- createOrUpdatePage ----
PubInit ==
  /\ ConvInitWith({}, {"absent"})
  /\ SerIdle
  /\ CsvIdle
  /\ InlineIdle
  /\ pubInput \in PubInputs
  /\ pubPc = IF pubInput.pageId # "" THEN "getPage" ELSE "search"
  /\ existingPage = NoPage
  /\ requests = <<>>
  /\ pubOut = Pending

PubIdleRest == UNCHANGED <<convVars, serVars, csvVars, inlVars>>

\* existingPage = await this.getPage(pageId), and its catch
GetPageById ==
  /\ pubPc = "getPage"
  /\ \E answered \in BOOLEAN :
       LET page == PageById(pubInput.pages, pubInput.pageId)
       IN /\ requests' = Append(requests, Get("page", pubInput.pageId))
          /\ IF answered /\ page # NoPage
             THEN existingPage' = page /\ pubPc' = "write"
             ELSE existingPage' = NoPage /\ pubPc' = "search"
  /\ UNCHANGED <<pubInput, pubOut>>
  /\ PubIdleRest

\* existingPage = await this.getPageByTitle(spaceKey, title, parentId)
GetPageByTitle ==
  /\ pubPc = "search"
  /\ \E space \in SpaceAnswers, searchOk \in BOOLEAN, down \in SUBSET ResultIds(pubInput) :
       LET found == getPageByTitle(pubInput, pubInput.parentId, space, searchOk, down)
       IN /\ requests' = requests \o found.sent
          /\ IF found.threw # ""
             THEN /\ pubOut' = Settled("threw", found.threw, "")
                  /\ pubPc' = "threw"
                  /\ UNCHANGED existingPage
             ELSE /\ existingPage' = found.page
                  /\ pubPc' = "write"
                  /\ UNCHANGED pubOut
  /\ UNCHANGED pubInput
  /\ PubIdleRest

AfterWrite(id) ==
  IF pubInput.labels /\ id # ""
  THEN pubPc' = "labels" /\ pubOut' = Settled("pending", "", id)
  ELSE pubPc' = "returned" /\ pubOut' = Settled("returned", "", id)

\* result = await this.updatePage(existingPage.id, title, content, currentVersion + 1)
UpdatePage ==
  /\ pubPc = "write"
  /\ existingPage # NoPage
  /\ \E current \in BOOLEAN, answer \in {"ok", "failed"} :
       LET server == pubInput.instanceType = "server"
           put == IF server
                  THEN updatePageServerRequest(pubInput, existingPage.id,
                                               updateVersion(existingPage))
                  ELSE updatePageCloudRequest(pubInput, existingPage.id,
                                              updateVersion(existingPage))
       IN IF server /\ ~current
          THEN /\ requests' = Append(requests, Get("page", existingPage.id))
               /\ pubPc' = "threw"
               /\ pubOut' = Settled("threw", RequestFailed, "")
          ELSE /\ requests' = (IF server
                               THEN Append(requests, Get("page", existingPage.id))
                               ELSE requests) \o <<put>>
               /\ IF answer = "ok"
                  THEN AfterWrite(existingPage.id)
                  ELSE /\ pubPc' = "threw"
                       /\ pubOut' = Settled("threw", RequestFailed, "")
  /\ UNCHANGED <<pubInput, existingPage>>
  /\ PubIdleRest

\* result = await this.createPage(spaceKey, title, content, parentId), and the
\* first test of its catch
CreatePage ==
  /\ pubPc = "write"
  /\ existingPage = NoPage
  /\ \E space \in SpaceAnswers, answer \in {"ok", "conflict", "failed", "noId"} :
       LET server == pubInput.instanceType = "server"
           post == IF server THEN createPageServerRequest(pubInput)
                   ELSE createPageCloudRequest(pubInput)
       IN IF ~server /\ space # "ok"
          THEN /\ requests' = Append(requests, Get("space", ""))
               /\ pubPc' = "threw"
               /\ pubOut' = Settled("threw",
                                    IF space = "none" THEN SpaceNotFound
                                    ELSE RequestFailed, "")
          ELSE /\ requests' = (IF server THEN requests
                               ELSE Append(requests, Get("space", ""))) \o <<post>>
               /\ CASE answer = "ok" -> AfterWrite("new")
                    [] answer = "noId" -> AfterWrite("")
                    [] answer = "conflict" ->
                         /\ pubPc' = "conflict"
                         /\ pubOut' = Settled("pending", TitleExists, "")
                    [] OTHER ->
                         /\ pubPc' = "threw"
                         /\ pubOut' = Settled("threw", RequestFailed, "")
  /\ UNCHANGED <<pubInput, existingPage>>
  /\ PubIdleRest

\* conflictingPage = await this.getPageByTitle(spaceKey, title), and the throw
SearchConflictingPage ==
  /\ pubPc = "conflict"
  /\ \E space \in SpaceAnswers, searchOk \in BOOLEAN :
       LET found == getPageByTitle(pubInput, "", space, searchOk, {})
       IN /\ requests' = requests \o found.sent
          /\ pubOut' = Settled("threw",
                               IF found.threw # "" THEN found.threw
                               ELSE IF found.page # NoPage THEN CannotCreate
                               ELSE TitleExists, "")
  /\ pubPc' = "threw"
  /\ UNCHANGED <<pubInput, existingPage>>
  /\ PubIdleRest

\* await this.addLabelsToPage(result.id, labels), and its catch
AddLabels ==
  /\ pubPc = "labels"
  /\ \E sent \in BOOLEAN :
       LET label == Request("POST", "label", pubOut.id, 0, NoBody, "")
       IN requests' = IF pubInput.instanceType = "server"
                      THEN Append(requests, label)
                      ELSE Append(requests, Get("page", pubOut.id))
                           \o (IF sent THEN <<label>> ELSE <<>>)
  /\ pubPc' = "returned"
  /\ pubOut' = Settled("returned", "", pubOut.id)
  /\ UNCHANGED <<pubInput, existingPage>>
  /\ PubIdleRest

PubNext ==
  \/ GetPageById
  \/ GetPageByTitle
  \/ UpdatePage
  \/ CreatePage
  \/ SearchConflictingPage
  \/ AddLabels

SpecPub == PubInit /\ [][PubNext]_vars

PubTypeOK ==
  /\ pubPc \in {"off", "getPage", "search", "write", "conflict", "labels",
                "returned", "threw"}
  /\ pubOut.kind \in {"pending", "returned", "threw"}

(***************************************************************************)
(* Properties of createOrUpdatePage.                                       *)
(***************************************************************************)
IsPageWrite(r) == r.resource = "page" /\ r.method \in {"PUT", "POST"}

PageWrites == SelectSeq(requests, IsPageWrite)

Searched == \E i \in DOMAIN requests : requests[i].resource = "search"

PubCompleted == pubPc \in {"labels", "returned"}

UpdateAsStated(r) ==
  /\ r.method = "PUT"
  /\ r.id = existingPage.id
  /\ existingPage.version # 0 => r.version = existingPage.version + 1

\* C22: a call of createOrUpdatePage sends at most one page write, and exactly
\* one when its exchanges succeed: when it has found a page (by page id, else
\* by title) the write is an update of that page with the found version plus
\* one, and no create; when it has found none the write is a create, and no
\* update.
C22_OnePageWritePerCall ==
  /\ Len(PageWrites) <= 1
  /\ PubCompleted => Len(PageWrites) = 1
  /\ \A i \in DOMAIN PageWrites :
       IF existingPage # NoPage
       THEN UpdateAsStated(PageWrites[i])
       ELSE PageWrites[i].method = "POST"

C22_Witness ==
  /\ pubPc = "returned"
  /\ pubOut.kind = "returned"
  /\ existingPage.version = 3
  /\ Len(PageWrites) = 1
  /\ PageWrites[1].method = "PUT"
  /\ PageWrites[1].version = 4

\* the create side of the same: a call that found no page has created one
CreateWhenNoneFound ==
  /\ pubPc = "returned"
  /\ existingPage = NoPage
  /\ Len(PageWrites) = 1
  /\ PageWrites[1].method = "POST"

\* the page of the server that a found page is
FoundOnServer == PageById(pubInput.pages, existingPage.id)

FoundByTitleUnderParent ==
  /\ pubInput.parentId # ""
  /\ Searched
  /\ existingPage # NoPage

\* C26: with a parent id, the page the title search hands to createOrUpdatePage
\* has the title and is below that parent, so the update the call sends is
\* never for a page under a different parent.
C26_TitleSearchKeepsToParent ==
  (FoundByTitleUnderParent /\ Len(PageWrites) > 0) =>
    /\ PageWrites[1].id = FoundOnServer.id
    /\ FoundOnServer.title = pubInput.title
    /\ \E i \in DOMAIN FoundOnServer.ancestors :
         FoundOnServer.ancestors[i] = pubInput.parentId

\* what holds instead: the found page has the title, and it is below the
\* parent whenever one of the search results shows that parent
TitleSearchPrefersPageUnderParent ==
  FoundByTitleUnderParent =>
    /\ FoundOnServer.title = pubInput.title
    /\ (\E page \in Range(SearchResults(pubInput.pages, pubInput.title,
                                        pubInput.instanceType)) :
          doesPageMatchParent(page, pubInput.parentId, pubInput.instanceType))
       => doesPageMatchParent(FoundOnServer, pubInput.parentId,
                              pubInput.instanceType)

InvalidRoot(adfTree) ==
  ~Has(adfTree, "type") \/ adfTree.type # "doc" \/ ~Has(adfTree, "content")

StorageWrites ==
  SelectSeq(requests, LAMBDA r : IsPageWrite(r) /\ r.body.representation = "storage")

\* C28: for a tree whose root is not doc or has no content array, the server
\* publish path does not fail in the serializer: the page write it sends has
\* the placeholder '<p>Invalid ADF document structure</p>' as its body, and a
\* call whose exchanges succeed has sent it.
C28_InvalidTreePublishesPlaceholder ==
  (pubInput.instanceType = "server" /\ InvalidRoot(pubInput.content)) =>
    /\ \A i \in DOMAIN StorageWrites :
         StorageWrites[i].body.value = InvalidStructure
    /\ PubCompleted => Len(StorageWrites) = 1

C28_Witness ==
  /\ pubInput.instanceType = "server"
  /\ pubInput.content.type = "paragraph"
  /\ pubPc = "returned"
  /\ Len(StorageWrites) = 1
  /\ StorageWrites[1].method = "POST"
  /\ StorageWrites[1].body.value = InvalidStructure

====
